---- MODULE Spec2Model ----
(***************************************************************************)
(* EdgeCare: the fairness-ranked triage queue (priority_queue.py), its     *)
(* audit trail, and the clinical safety override (triage_engine.py).       *)
(*                                                                         *)
(* Conventions                                                             *)
(*  - Optional[T] is a sequence of length 0 (None) or 1 (<<v>>).           *)
(*  - Free text is a sequence of word tokens; str.lower() maps each token  *)
(*    through LowerWord; `a in b` on strings is contiguous-subsequence.    *)
(*  - confidence_score is kept in hundredths (0..100 stands for 0.0..1.0). *)
(*  - datetime values are whole minutes on the clock `now`;                *)
(*    wait_time_minutes is a difference of two such values.                *)
(*  - A TriageEntry object is identified by its slot in `queue`; every     *)
(*    add_patient call receives a freshly constructed TriageEntry.         *)
(***************************************************************************)
EXTENDS Integers, Sequences, FiniteSets, TLC

VARIABLES
    queue,        \* FairTriageQueue.queue : List[TriageEntry]
    audit_log,    \* FairTriageQueue.audit_log : List[Dict]
    now,          \* datetime.now(), in minutes
    result,       \* the last call: its name, arguments and return value
    ov_intake,    \* apply_clinical_overrides: argument `intake`
    ov_raw,       \* apply_clinical_overrides: argument `decision` as passed
    ov_out,       \* apply_clinical_overrides: returned decision (Optional)
    ov_twice,     \* the decision returned when ov_out is passed in again
    tasks,        \* backend.py: per caller, the request handler in flight
    exported      \* the list a caller got from export_audit_log

vars == <<queue, audit_log, now, result, ov_intake, ov_raw, ov_out, ov_twice,
          tasks, exported>>

qvars == <<queue, audit_log, now, result>>
ovars == <<ov_intake, ov_raw, ov_out, ov_twice>>

\* ------------------------------------------------------------------------
\* Bounds
\* ------------------------------------------------------------------------
MaxQueue == 3     \* most entries held at once
MaxLog == 3       \* most audit records written in one behaviour
MaxTime == 1      \* last clock value
MaxSubmits == 2   \* most intakes accepted through POST /triage

None == <<>>
Some(v) == <<v>>

\* ------------------------------------------------------------------------
\* models.py
\* ------------------------------------------------------------------------
RiskLevel == {"LOW", "MEDIUM", "HIGH", "CRITICAL"}

SymptomSeverity == {"MILD", "MODERATE", "SEVERE", "CRITICAL"}

Symptom(name, severity) == [name |-> name, severity |-> severity]

VitalSigns(hr, sbp, spo2) ==
    [heart_rate |-> hr, systolic_bp |-> sbp, oxygen_saturation |-> spo2]

PatientIntake(cc, symptoms, vitals) ==
    [chief_complaint |-> cc, symptoms |-> symptoms, vital_signs |-> vitals]

TriageDecision(risk, conf, reasoning) ==
    [risk_level |-> risk, confidence_score |-> conf, reasoning |-> reasoning]

TriageEntry(pid, intake, decision, ts) ==
    [patient_id |-> pid, intake |-> intake, triage_decision |-> decision,
     intake_timestamp |-> ts, queue_position |-> 0, wait_time_minutes |-> 0,
     escalation_reason |-> None]

\* ------------------------------------------------------------------------
\* priority_queue.py : ranking keys
\* ------------------------------------------------------------------------
SEVERITY_SCORE ==
    [s \in SymptomSeverity |->
        CASE s = "MILD" -> 1 [] s = "MODERATE" -> 2
          [] s = "SEVERE" -> 3 [] s = "CRITICAL" -> 4]

RISK_PRIORITY_WEIGHT ==
    [r \in RiskLevel |->
        CASE r = "CRITICAL" -> 100 [] r = "HIGH" -> 75
          [] r = "MEDIUM" -> 50 [] r = "LOW" -> 25]

MaxOf(S) == CHOOSE m \in S : \A x \in S : x <= m

get_patient_severity_score(entry) ==
    IF entry.intake.symptoms = <<>> THEN 0
    ELSE MaxOf({SEVERITY_SCORE[entry.intake.symptoms[i].severity] :
                    i \in 1..Len(entry.intake.symptoms)})

\* the key with the risk weight ascending (the minus sign lost)
SortKeyAscendingRisk(e) ==
    << RISK_PRIORITY_WEIGHT[e.triage_decision.risk_level],
       -get_patient_severity_score(e),
       -e.triage_decision.confidence_score,
       e.intake_timestamp >>

\* the key without its fourth component
SortKeyNoTimestamp(e) ==
    << -RISK_PRIORITY_WEIGHT[e.triage_decision.risk_level],
       -get_patient_severity_score(e),
       -e.triage_decision.confidence_score,
       0 >>

\* the key with confidence compared ahead of the severity score
SortKeyConfidenceFirst(e) ==
    << -RISK_PRIORITY_WEIGHT[e.triage_decision.risk_level],
       -e.triage_decision.confidence_score,
       -get_patient_severity_score(e),
       e.intake_timestamp >>

\* the key= lambda of get_sorted_queue
SortKey(e) ==
    << -RISK_PRIORITY_WEIGHT[e.triage_decision.risk_level],
       -get_patient_severity_score(e),
       -e.triage_decision.confidence_score,
       e.intake_timestamp >>

\* Python's tuple comparison a < b on 4-tuples
TupleLess(a, b) ==
    \E i \in 1..4 : a[i] < b[i] /\ \A j \in 1..(i - 1) : a[j] = b[j]

\* an unstable sort: an element goes ahead of the elements it ties with
InsertSlotBeforeTies(q, s, k) ==
    LET before == {i \in 1..Len(s) :
                      \A j \in 1..i : TupleLess(SortKey(q[s[j]]), SortKey(q[k]))}
        n == Cardinality(before)
    IN  SubSeq(s, 1, n) \o <<k>> \o SubSeq(s, n + 1, Len(s))

\* sorted() is stable: an element goes after every element it is not
\* strictly less than.  `s` is a sorted sequence of slots of q.
InsertSlot(q, s, k) ==
    LET before == {i \in 1..Len(s) :
                      \A j \in 1..i : ~TupleLess(SortKey(q[k]), SortKey(q[s[j]]))}
        n == Cardinality(before)
    IN  SubSeq(s, 1, n) \o <<k>> \o SubSeq(s, n + 1, Len(s))

RECURSIVE SortedSlots(_, _)
SortedSlots(q, n) ==
    IF n = 0 THEN <<>> ELSE InsertSlot(q, SortedSlots(q, n - 1), n)

\* enumerate(sorted_queue) without the start argument
EnumerateFrom0(s, k) == (CHOOSE i \in 1..Len(s) : s[i] = k) - 1

\* slot -> 1-based index in the sorted sequence (enumerate(sorted_queue, 1))
EnumerateFrom1(s, k) == CHOOSE i \in 1..Len(s) : s[i] = k

\* the entries after get_sorted_queue wrote wait_time_minutes and
\* queue_position back into them
Ranked(q, t) ==
    LET s == SortedSlots(q, Len(q))
    IN  [k \in 1..Len(q) |->
            [q[k] EXCEPT !.wait_time_minutes = t - q[k].intake_timestamp,
                         !.queue_position = EnumerateFrom1(s, k)]]

\* the list get_sorted_queue returns (references to the entries of Ranked)
SortedView(q, t) ==
    LET s == SortedSlots(q, Len(q))
        r == Ranked(q, t)
    IN  [i \in 1..Len(q) |-> r[s[i]]]

\* ------------------------------------------------------------------------
\* priority_queue.py : audit log
\* ------------------------------------------------------------------------
\* the log overwritten instead of appended to
LogActionReplace(log, t, action, details) ==
    <<[timestamp |-> t, action |-> action] @@ details>>

\* the record inserted at the head of the log
LogActionPrepend(log, t, action, details) ==
    <<[timestamp |-> t, action |-> action] @@ details>> \o log

_log_action(log, t, action, details) ==
    Append(log, [timestamp |-> t, action |-> action] @@ details)

\* a lookup that falls through to the last entry when nothing matches
FirstIndexOrLast(q, pid) ==
    LET hits == {i \in 1..Len(q) : q[i].patient_id = pid}
    IN  IF hits = {} THEN Len(q) ELSE CHOOSE i \in hits : \A j \in hits : i <= j

FirstIndex(q, pid) ==
    LET hits == {i \in 1..Len(q) : q[i].patient_id = pid}
    IN  IF hits = {} THEN 0 ELSE CHOOSE i \in hits : \A j \in hits : i <= j

RemoveAt(q, i) == SubSeq(q, 1, i - 1) \o SubSeq(q, i + 1, Len(q))

ActiveIds(q) == {q[i].patient_id : i \in 1..Len(q)}

\* ------------------------------------------------------------------------
\* Text
\* ------------------------------------------------------------------------
\* a comparison that keeps the case of the name
LowerWordIdentity(w) == w

\* str.lower() on one word token
LowerWord(w) ==
    CASE w = "Chest" -> "chest"
      [] w = "Pain" -> "pain"
      [] w = "Severe" -> "severe"
      [] w = "Stroke" -> "stroke"
      [] OTHER -> w

Lower(text) == [i \in 1..Len(text) |-> LowerWord(text[i])]

\* Python's `sub in text` on strings
Contains(sub, text) ==
    \E i \in 0..(Len(text) - Len(sub)) : SubSeq(text, i + 1, i + Len(sub)) = sub

\* ------------------------------------------------------------------------
\* triage_engine.py : apply_clinical_overrides
\* ------------------------------------------------------------------------
RED_FLAG_SYMPTOMS ==
    << <<"chest", "pain">>,
       <<"shortness", "of", "breath">>,
       <<"breathing", "difficulty">>,
       <<"syncope">>,
       <<"unconscious">>,
       <<"stroke">>,
       <<"seizure">>,
       <<"severe", "bleeding">> >>

\* the upper clamp left out
MinNoClamp(a, b) == b

\* the lower bound left out
MaxNoFloor(a, b) == b

Min(a, b) == IF a <= b THEN a ELSE b
Max(a, b) == IF a >= b THEN a ELSE b

\* decision.reasoning or ""
ReasoningOrEmpty(d) == IF d.reasoning = None THEN <<>> ELSE d.reasoning[1]

\* rule 1 without the blood-pressure test
CriticalVitalsNoBp(intake) ==
    /\ intake.vital_signs # None
    /\ LET vitals == intake.vital_signs[1]
       IN  \/ (vitals.oxygen_saturation # None /\ vitals.oxygen_saturation[1] < 90)
           \/ (vitals.heart_rate # None /\ vitals.heart_rate[1] > 130)

\* rule 1 with the thresholds themselves counted as critical
CriticalVitalsNonStrict(intake) ==
    /\ intake.vital_signs # None
    /\ LET vitals == intake.vital_signs[1]
       IN  \/ (vitals.oxygen_saturation # None /\ vitals.oxygen_saturation[1] <= 90)
           \/ (vitals.systolic_bp # None /\ vitals.systolic_bp[1] <= 90)
           \/ (vitals.heart_rate # None /\ vitals.heart_rate[1] >= 130)

\* the condition of rule 1 (lines 57-62)
CriticalVitals(intake) ==
    /\ intake.vital_signs # None
    /\ LET vitals == intake.vital_signs[1]
       IN  \/ (vitals.oxygen_saturation # None /\ vitals.oxygen_saturation[1] < 90)
           \/ (vitals.systolic_bp # None /\ vitals.systolic_bp[1] < 90)
           \/ (vitals.heart_rate # None /\ vitals.heart_rate[1] > 130)

\* symptom_names = [s.name.lower() for s in intake.symptoms]
symptom_names(intake) ==
    [i \in 1..Len(intake.symptoms) |-> Lower(intake.symptoms[i].name)]

\* any(flag in symptom_names for flag in RED_FLAG_SYMPTOMS): list membership
RedFlagPresent(intake) ==
    \E f \in 1..Len(RED_FLAG_SYMPTOMS) :
        \E i \in 1..Len(intake.symptoms) :
            symptom_names(intake)[i] = RED_FLAG_SYMPTOMS[f]

severe_present(intake) ==
    \E i \in 1..Len(intake.symptoms) :
        intake.symptoms[i].severity \in {"SEVERE", "CRITICAL"}

\* rule 1 without its `return decision`: rules 2 and 3 follow it
ApplyNoEarlyReturn(intake, decision) ==
    LET d1 == IF CriticalVitals(intake)
              THEN [decision EXCEPT
                      !.risk_level = "CRITICAL",
                      !.reasoning = Some(ReasoningOrEmpty(decision)
                                           \o <<"critical-vitals">>),
                      !.confidence_score = Min(100, decision.confidence_score + 20)]
              ELSE decision
        d2 == IF RedFlagPresent(intake) /\ d1.risk_level \in {"LOW", "MEDIUM"}
              THEN [d1 EXCEPT
                      !.risk_level = "HIGH",
                      !.reasoning = Some(ReasoningOrEmpty(d1) \o <<"red-flag">>)]
              ELSE d1
    IN  [d2 EXCEPT
           !.confidence_score =
               IF severe_present(intake)
               THEN Min(100, d2.confidence_score + 10)
               ELSE Max(50, d2.confidence_score - 5)]

\* rule 2 without its test of the current level: a red flag sets HIGH
ApplyRedFlagForcesHigh(intake, decision) ==
    IF CriticalVitals(intake)
    THEN [decision EXCEPT
            !.risk_level = "CRITICAL",
            !.reasoning = Some(ReasoningOrEmpty(decision) \o <<"critical-vitals">>),
            !.confidence_score = Min(100, decision.confidence_score + 20)]
    ELSE LET d2 == IF RedFlagPresent(intake)
                   THEN [decision EXCEPT
                           !.risk_level = "HIGH",
                           !.reasoning = Some(ReasoningOrEmpty(decision)
                                                \o <<"red-flag">>)]
                   ELSE decision
         IN  [d2 EXCEPT
                !.confidence_score =
                    IF severe_present(intake)
                    THEN Min(100, d2.confidence_score + 10)
                    ELSE Max(50, d2.confidence_score - 5)]

\* rule 2 returning like rule 1: no calibration after a red flag fired
ApplyRedFlagSkipsCalibration(intake, decision) ==
    IF CriticalVitals(intake)
    THEN [decision EXCEPT
            !.risk_level = "CRITICAL",
            !.reasoning = Some(ReasoningOrEmpty(decision) \o <<"critical-vitals">>),
            !.confidence_score = Min(100, decision.confidence_score + 20)]
    ELSE IF RedFlagPresent(intake) /\ decision.risk_level \in {"LOW", "MEDIUM"}
         THEN [decision EXCEPT
                 !.risk_level = "HIGH",
                 !.reasoning = Some(ReasoningOrEmpty(decision) \o <<"red-flag">>)]
         ELSE [decision EXCEPT
                 !.confidence_score =
                     IF severe_present(intake)
                     THEN Min(100, decision.confidence_score + 10)
                     ELSE Max(50, decision.confidence_score - 5)]

\* rule 2 written as max(level, HIGH) on the level names, which compare
\* alphabetically: CRITICAL < HIGH < LOW < MEDIUM
ApplyRedFlagMaxByName(intake, decision) ==
    IF CriticalVitals(intake)
    THEN [decision EXCEPT
            !.risk_level = "CRITICAL",
            !.reasoning = Some(ReasoningOrEmpty(decision) \o <<"critical-vitals">>),
            !.confidence_score = Min(100, decision.confidence_score + 20)]
    ELSE LET d2 == IF RedFlagPresent(intake)
                   THEN [decision EXCEPT
                           !.risk_level =
                               IF decision.risk_level \in {"CRITICAL", "HIGH"}
                               THEN "HIGH" ELSE decision.risk_level,
                           !.reasoning = Some(ReasoningOrEmpty(decision)
                                                \o <<"red-flag">>)]
                   ELSE decision
         IN  [d2 EXCEPT
                !.confidence_score =
                    IF severe_present(intake)
                    THEN Min(100, d2.confidence_score + 10)
                    ELSE Max(50, d2.confidence_score - 5)]

apply_clinical_overrides(intake, decision) ==
    IF CriticalVitals(intake)
    THEN [decision EXCEPT
            !.risk_level = "CRITICAL",
            !.reasoning = Some(ReasoningOrEmpty(decision) \o <<"critical-vitals">>),
            !.confidence_score = Min(100, decision.confidence_score + 20)]
    ELSE LET d2 == IF RedFlagPresent(intake)
                      /\ decision.risk_level \in {"LOW", "MEDIUM"}
                   THEN [decision EXCEPT
                           !.risk_level = "HIGH",
                           !.reasoning = Some(ReasoningOrEmpty(decision)
                                                \o <<"red-flag">>)]
                   ELSE decision
         IN  [d2 EXCEPT
                !.confidence_score =
                    IF severe_present(intake)
                    THEN Min(100, d2.confidence_score + 10)
                    ELSE Max(50, d2.confidence_score - 5)]

\* ------------------------------------------------------------------------
\* Inputs of the queue operations
\* ------------------------------------------------------------------------
PatientIds == {"p1", "p2"}

NoVitals == None

\* (intake, decision) pairs an entry is built from
EntrySamples ==
    { <<PatientIntake(<<"back", "pain">>,
                      <<Symptom(<<"back", "pain">>, "MODERATE")>>, NoVitals),
        TriageDecision("MEDIUM", 80, None)>>,
      <<PatientIntake(<<"mild", "headache">>,
                      <<Symptom(<<"headache">>, "MILD")>>, NoVitals),
        TriageDecision("HIGH", 50, None)>>,
      <<PatientIntake(<<"mild", "headache">>, <<>>, NoVitals),
        TriageDecision("CRITICAL", 30, None)>> }

Reasons == { <<"deteriorating">> }

\* ------------------------------------------------------------------------
\* priority_queue.py : FairTriageQueue
\* ------------------------------------------------------------------------
QInit ==
    /\ queue = <<>>
    /\ audit_log = <<>>
    /\ now = 0
    /\ result = [op |-> "init"]

add_patient(entry) ==
    LET e == [entry EXCEPT !.queue_position = Len(queue) + 1,
                           !.wait_time_minutes = 0]
    IN  /\ queue' = Append(queue, e)
        /\ audit_log' = _log_action(audit_log, now, "PATIENT_ADDED",
                            [patient_id |-> e.patient_id,
                             risk_level |-> e.triage_decision.risk_level,
                             position |-> e.queue_position])
        /\ result' = [op |-> "add_patient", patient_id |-> entry.patient_id,
                      ret |-> "None"]
        /\ UNCHANGED now

AddPatient ==
    /\ Len(queue) < MaxQueue
    /\ Len(audit_log) < MaxLog
    /\ \E pid \in PatientIds, s \in EntrySamples, ts \in 0..now :
          add_patient(TriageEntry(pid, s[1], s[2], ts))

\* the ranking done with self.queue.sort(): the backing list is reordered
GetSortedQueueInPlace ==
    /\ queue' = SortedView(queue, now)
    /\ result' = [op |-> "get_sorted_queue", view |-> SortedView(queue, now)]
    /\ UNCHANGED <<audit_log, now>>

get_sorted_queue ==
    /\ queue' = Ranked(queue, now)
    /\ result' = [op |-> "get_sorted_queue", view |-> SortedView(queue, now)]
    /\ UNCHANGED <<audit_log, now>>

\* an escalation that reads old_level after it assigned the new level
EscalateLogsNewAsOld(patient_id, new_risk_level, reason) ==
    LET i == FirstIndex(queue, patient_id)
    IN  IF i # 0
        THEN LET entry == [queue[i] EXCEPT
                              !.triage_decision.risk_level = new_risk_level,
                              !.escalation_reason = Some(reason)]
                 old_level == entry.triage_decision.risk_level
             IN  /\ queue' = [queue EXCEPT ![i] = entry]
                 /\ audit_log' = _log_action(audit_log, now, "ESCALATION",
                                     [patient_id |-> patient_id,
                                      old_risk |-> old_level,
                                      new_risk |-> new_risk_level,
                                      reason |-> reason])
                 /\ result' = [op |-> "escalate_patient",
                               patient_id |-> patient_id,
                               new_risk_level |-> new_risk_level,
                               ret |-> Some(entry)]
                 /\ UNCHANGED now
        ELSE /\ result' = [op |-> "escalate_patient",
                           patient_id |-> patient_id,
                           new_risk_level |-> new_risk_level,
                           ret |-> None]
             /\ UNCHANGED <<queue, audit_log, now>>

\* an escalation that records the reason and the audit entry but leaves
\* the entry's risk_level as it was
EscalateKeepsLevel(patient_id, new_risk_level, reason) ==
    LET i == FirstIndex(queue, patient_id)
    IN  IF i # 0
        THEN LET old_level == queue[i].triage_decision.risk_level
                 entry == [queue[i] EXCEPT !.escalation_reason = Some(reason)]
             IN  /\ queue' = [queue EXCEPT ![i] = entry]
                 /\ audit_log' = _log_action(audit_log, now, "ESCALATION",
                                     [patient_id |-> patient_id,
                                      old_risk |-> old_level,
                                      new_risk |-> new_risk_level,
                                      reason |-> reason])
                 /\ result' = [op |-> "escalate_patient",
                               patient_id |-> patient_id,
                               new_risk_level |-> new_risk_level,
                               ret |-> Some(entry)]
                 /\ UNCHANGED now
        ELSE /\ result' = [op |-> "escalate_patient",
                           patient_id |-> patient_id,
                           new_risk_level |-> new_risk_level,
                           ret |-> None]
             /\ UNCHANGED <<queue, audit_log, now>>

escalate_patient(patient_id, new_risk_level, reason) ==
    LET i == FirstIndex(queue, patient_id)
    IN  IF i # 0
        THEN LET old_level == queue[i].triage_decision.risk_level
                 entry == [queue[i] EXCEPT
                              !.triage_decision.risk_level = new_risk_level,
                              !.escalation_reason = Some(reason)]
             IN  /\ queue' = [queue EXCEPT ![i] = entry]
                 /\ audit_log' = _log_action(audit_log, now, "ESCALATION",
                                     [patient_id |-> patient_id,
                                      old_risk |-> old_level,
                                      new_risk |-> new_risk_level,
                                      reason |-> reason])
                 /\ result' = [op |-> "escalate_patient",
                               patient_id |-> patient_id,
                               new_risk_level |-> new_risk_level,
                               ret |-> Some(entry)]
                 /\ UNCHANGED now
        ELSE /\ result' = [op |-> "escalate_patient",
                           patient_id |-> patient_id,
                           new_risk_level |-> new_risk_level,
                           ret |-> None]
             /\ UNCHANGED <<queue, audit_log, now>>

EscalatePatient ==
    \E pid \in PatientIds, r \in RiskLevel, why \in Reasons :
        /\ FirstIndex(queue, pid) # 0 => Len(audit_log) < MaxLog
        /\ escalate_patient(pid, r, why)

\* a mark_seen that finds no entry whose level is LOW
MarkSeenSkipsLow(patient_id) ==
    LET i == FirstIndex(queue, patient_id)
    IN  IF i # 0 /\ queue[i].triage_decision.risk_level # "LOW"
        THEN LET removed == queue[i]
             IN  /\ queue' = RemoveAt(queue, i)
                 /\ audit_log' = _log_action(audit_log, now, "PATIENT_SEEN",
                                     [patient_id |-> patient_id,
                                      wait_time_minutes |-> removed.wait_time_minutes,
                                      risk_level |-> removed.triage_decision.risk_level])
                 /\ result' = [op |-> "mark_seen", patient_id |-> patient_id,
                               ret |-> Some(removed)]
                 /\ UNCHANGED now
        ELSE /\ result' = [op |-> "mark_seen", patient_id |-> patient_id,
                           ret |-> None]
             /\ UNCHANGED <<queue, audit_log, now>>

mark_seen(patient_id) ==
    LET i == FirstIndex(queue, patient_id)
    IN  IF i # 0
        THEN LET removed == queue[i]
             IN  /\ queue' = RemoveAt(queue, i)
                 /\ audit_log' = _log_action(audit_log, now, "PATIENT_SEEN",
                                     [patient_id |-> patient_id,
                                      wait_time_minutes |-> removed.wait_time_minutes,
                                      risk_level |-> removed.triage_decision.risk_level])
                 /\ result' = [op |-> "mark_seen", patient_id |-> patient_id,
                               ret |-> Some(removed)]
                 /\ UNCHANGED now
        ELSE /\ result' = [op |-> "mark_seen", patient_id |-> patient_id,
                           ret |-> None]
             /\ UNCHANGED <<queue, audit_log, now>>

MarkSeen ==
    \E pid \in PatientIds :
        /\ FirstIndex(queue, pid) # 0 => Len(audit_log) < MaxLog
        /\ mark_seen(pid)

\* datetime.now() advances between calls
Tick ==
    /\ now < MaxTime
    /\ now' = now + 1
    /\ result' = [op |-> "tick"]
    /\ UNCHANGED <<queue, audit_log>>

\* ------------------------------------------------------------------------
\* priority_queue.py : read operations
\* ------------------------------------------------------------------------
RECURSIVE SumSeq(_)
SumSeq(s) == IF s = <<>> THEN 0 ELSE Head(s) + SumSeq(Tail(s))

\* statistics.mean as an exact fraction
Mean(s) == [num |-> SumSeq(s), den |-> Len(s)]

\* k-th smallest element of a non-empty sequence of integers
KthSmallest(s, k) ==
    CHOOSE v \in {s[i] : i \in 1..Len(s)} :
        /\ Cardinality({i \in 1..Len(s) : s[i] < v}) < k
        /\ Cardinality({i \in 1..Len(s) : s[i] <= v}) >= k

\* statistics.median as an exact fraction
Median(s) ==
    IF Len(s) % 2 = 1
    THEN [num |-> KthSmallest(s, (Len(s) + 1) \div 2), den |-> 1]
    ELSE [num |-> KthSmallest(s, Len(s) \div 2)
                    + KthSmallest(s, Len(s) \div 2 + 1), den |-> 2]

CountRisk(q, level) ==
    Cardinality({i \in 1..Len(q) : q[i].triage_decision.risk_level = level})

\* a distribution that counts only the levels that occur
QueueStateSparse(q, t) ==
    LET sorted_queue == SortedView(q, t)
        wait_times == [i \in 1..Len(sorted_queue) |->
                          sorted_queue[i].wait_time_minutes]
        present == {sorted_queue[i].triage_decision.risk_level :
                        i \in 1..Len(sorted_queue)}
    IN  [total_patients |-> Len(sorted_queue),
         by_risk_level |-> [level \in present |-> CountRisk(sorted_queue, level)],
         avg_wait_time |-> IF wait_times # <<>> THEN Mean(wait_times)
                           ELSE [num |-> 0, den |-> 1],
         patients |-> sorted_queue,
         timestamp |-> t]

\* the TriageQueueState built by get_queue_state at time t
QueueState(q, t) ==
    LET sorted_queue == SortedView(q, t)
        wait_times == [i \in 1..Len(sorted_queue) |->
                          sorted_queue[i].wait_time_minutes]
    IN  [total_patients |-> Len(sorted_queue),
         by_risk_level |-> [level \in RiskLevel |-> CountRisk(sorted_queue, level)],
         avg_wait_time |-> IF wait_times # <<>> THEN Mean(wait_times)
                           ELSE [num |-> 0, den |-> 1],
         patients |-> sorted_queue,
         timestamp |-> t]

get_queue_state ==
    /\ queue' = Ranked(queue, now)
    /\ result' = [op |-> "get_queue_state", ret |-> QueueState(queue, now)]
    /\ UNCHANGED <<audit_log, now>>

\* an escalation rate that counts the HIGH entries only
AnalyticsHighOnly(q, t) ==
    LET state == QueueState(q, t)
        after == Ranked(q, t)
        high_critical == state.by_risk_level["HIGH"]
        confidences == [i \in 1..Len(after) |->
                           after[i].triage_decision.confidence_score]
        waits == [i \in 1..Len(after) |-> after[i].wait_time_minutes]
    IN  [total_triages |-> state.total_patients,
         distribution_by_risk |-> state.by_risk_level,
         avg_confidence |-> IF confidences # <<>> THEN Mean(confidences)
                            ELSE [num |-> 75, den |-> 1],
         median_wait_time |-> IF after # <<>> THEN Median(waits)
                              ELSE [num |-> 0, den |-> 1],
         high_risk_escalation_rate |->
              IF state.total_patients > 0
              THEN [num |-> high_critical * 100, den |-> state.total_patients]
              ELSE [num |-> 0, den |-> 1]]

\* the TriageAnalytics built by get_analytics at time t
Analytics(q, t) ==
    LET state == QueueState(q, t)
        after == Ranked(q, t)
        high_critical == state.by_risk_level["HIGH"]
                            + state.by_risk_level["CRITICAL"]
        confidences == [i \in 1..Len(after) |->
                           after[i].triage_decision.confidence_score]
        waits == [i \in 1..Len(after) |-> after[i].wait_time_minutes]
    IN  [total_triages |-> state.total_patients,
         distribution_by_risk |-> state.by_risk_level,
         avg_confidence |-> IF confidences # <<>> THEN Mean(confidences)
                            ELSE [num |-> 75, den |-> 1],
         median_wait_time |-> IF after # <<>> THEN Median(waits)
                              ELSE [num |-> 0, den |-> 1],
         high_risk_escalation_rate |->
              IF state.total_patients > 0
              THEN [num |-> high_critical * 100, den |-> state.total_patients]
              ELSE [num |-> 0, den |-> 1]]

get_analytics ==
    /\ queue' = Ranked(queue, now)
    /\ result' = [op |-> "get_analytics", ret |-> Analytics(queue, now)]
    /\ UNCHANGED <<audit_log, now>>

long_wait_threshold == 15

\* a long-wait test that also fires at exactly the threshold
HealthNonStrict(q, t) ==
    LET state == QueueState(q, t)
        after == Ranked(q, t)
        critical_count == state.by_risk_level["CRITICAL"]
        IsHigh(e) == e.triage_decision.risk_level = "HIGH"
        IsLong(e) == e.wait_time_minutes >= long_wait_threshold
        high_risk_patients == SelectSeq(after, IsHigh)
        late == SelectSeq(high_risk_patients, IsLong)
    IN  [queue_size |-> state.total_patients,
         distribution |-> state.by_risk_level,
         avg_wait |-> state.avg_wait_time,
         alerts |->
            (IF critical_count > 0
             THEN <<[kind |-> "CRITICAL_WAITING", count |-> critical_count]>>
             ELSE <<>>)
            \o [i \in 1..Len(late) |->
                   [kind |-> "HIGH_LONG_WAIT",
                    patient_id |-> late[i].patient_id,
                    wait |-> late[i].wait_time_minutes]],
         timestamp |-> t]

\* the dict built by health_check at time t
Health(q, t) ==
    LET state == QueueState(q, t)
        after == Ranked(q, t)
        critical_count == state.by_risk_level["CRITICAL"]
        IsHigh(e) == e.triage_decision.risk_level = "HIGH"
        IsLong(e) == e.wait_time_minutes > long_wait_threshold
        high_risk_patients == SelectSeq(after, IsHigh)
        late == SelectSeq(high_risk_patients, IsLong)
    IN  [queue_size |-> state.total_patients,
         distribution |-> state.by_risk_level,
         avg_wait |-> state.avg_wait_time,
         alerts |->
            (IF critical_count > 0
             THEN <<[kind |-> "CRITICAL_WAITING", count |-> critical_count]>>
             ELSE <<>>)
            \o [i \in 1..Len(late) |->
                   [kind |-> "HIGH_LONG_WAIT",
                    patient_id |-> late[i].patient_id,
                    wait |-> late[i].wait_time_minutes]],
         timestamp |-> t]

health_check ==
    /\ queue' = Ranked(queue, now)
    /\ result' = [op |-> "health_check", ret |-> Health(queue, now)]
    /\ UNCHANGED <<audit_log, now>>

export_audit_log ==
    /\ result' = [op |-> "export_audit_log", ret |-> audit_log]
    /\ UNCHANGED <<queue, audit_log, now>>

\* ------------------------------------------------------------------------
\* The queue as a state machine
\* ------------------------------------------------------------------------
OvIdle ==
    /\ ov_intake = PatientIntake(<<>>, <<>>, None)
    /\ ov_raw = TriageDecision("LOW", 0, None)
    /\ ov_out = None
    /\ ov_twice = None

\* the callers of the HTTP API and the state of a caller with no request
Callers == {"c1", "c2"}

IdleTask == [op |-> "idle", pc |-> 0]

LoopIdle == tasks = [c \in Callers |-> IdleTask]

\* no caller holds an exported list
ExportIdle == exported = <<>>

Init == QInit /\ OvIdle /\ LoopIdle /\ ExportIdle

Next ==
    \/ AddPatient /\ UNCHANGED <<ovars, tasks, exported>>
    \/ get_sorted_queue /\ UNCHANGED <<ovars, tasks, exported>>
    \/ EscalatePatient /\ UNCHANGED <<ovars, tasks, exported>>
    \/ MarkSeen /\ UNCHANGED <<ovars, tasks, exported>>
    \/ get_queue_state /\ UNCHANGED <<ovars, tasks, exported>>
    \/ get_analytics /\ UNCHANGED <<ovars, tasks, exported>>
    \/ health_check /\ UNCHANGED <<ovars, tasks, exported>>
    \/ export_audit_log /\ UNCHANGED <<ovars, tasks, exported>>
    \/ Tick /\ UNCHANGED <<ovars, tasks, exported>>

Spec == Init /\ [][Next]_vars

\* ------------------------------------------------------------------------
\* apply_clinical_overrides as a state machine over its inputs
\* ------------------------------------------------------------------------
MaxSymptoms == 2   \* longest symptom list tried

HeartRates == {130, 131}
SystolicBps == {89, 90}
OxygenSaturations == {85, 89, 90}

Opt(S) == {None} \cup {Some(v) : v \in S}

OvVitals ==
    {None} \cup
    {Some(VitalSigns(hr, sbp, spo2)) :
        hr \in Opt(HeartRates), sbp \in Opt(SystolicBps),
        spo2 \in Opt(OxygenSaturations)}

OvSymptoms ==
    { Symptom(<<"chest", "pain">>, "MILD"),
      Symptom(<<"Chest", "Pain">>, "SEVERE"),
      Symptom(<<"headache">>, "MODERATE"),
      Symptom(<<"fever">>, "CRITICAL") }

SeqsUpTo(S, n) == UNION {[1..k -> S] : k \in 0..n}

OvComplaints ==
    { <<"Severe", "chest", "pain", "radiating">>, <<"mild", "headache">> }

OvIntakes ==
    {PatientIntake(cc, sy, v) :
        cc \in OvComplaints, sy \in SeqsUpTo(OvSymptoms, MaxSymptoms),
        v \in OvVitals}

\* confidence_score on a grid of 0.05
ConfGrid == {5 * k : k \in 0..20}

OvDecisions ==
    {TriageDecision(r, c, why) :
        r \in RiskLevel, c \in ConfGrid, why \in {None, Some(<<"model">>)}}

InitOverride ==
    /\ QInit
    /\ ov_intake \in OvIntakes
    /\ ov_raw \in OvDecisions
    /\ ov_out = None
    /\ ov_twice = None
    /\ LoopIdle
    /\ ExportIdle

ApplyOverride ==
    /\ ov_out = None
    /\ ov_out' = Some(apply_clinical_overrides(ov_intake, ov_raw))
    /\ UNCHANGED <<ov_intake, ov_raw, ov_twice, qvars, tasks, exported>>

\* apply_clinical_overrides called again on the decision it returned
ReapplyOverride ==
    /\ ov_out # None
    /\ ov_twice = None
    /\ ov_twice' = Some(apply_clinical_overrides(ov_intake, ov_out[1]))
    /\ UNCHANGED <<ov_intake, ov_raw, ov_out, qvars, tasks, exported>>

NextOverride == ApplyOverride \/ ReapplyOverride

SpecOverride == InitOverride /\ [][NextOverride]_vars

\* ========================================================================
\* Properties of the ranked view (specification Spec)
\* ========================================================================
IsRankedView == result.op = "get_sorted_queue"

\* C1: a ranked view returns every active entry exactly once, and the
\* queue_position values it assigns are 1..N in the order of the returned
\* sequence, N being the number of active entries.
C1_PositionsContiguous ==
    IsRankedView =>
        LET view == result.view
            N == Len(queue)
        IN  /\ Len(view) = N
            /\ \A i \in 1..N : view[i].queue_position = i
            /\ \A k \in 1..N :
                  /\ queue[k].queue_position \in 1..N
                  /\ view[queue[k].queue_position] = queue[k]
            /\ \A k, l \in 1..N :
                  k # l => queue[k].queue_position # queue[l].queue_position

\* a view of three entries whose order is not the order they were added in
C1_Witness ==
    /\ IsRankedView
    /\ Len(result.view) = 3
    /\ result.view[1] = queue[3]
    /\ result.view[3] = queue[1]

\* C2: in a ranked view no entry stands behind an entry of lower risk level
\* (LOW < MEDIUM < HIGH < CRITICAL), whatever severity, confidence,
\* timestamp and waiting time they have.
C2_HigherRiskFirst ==
    IsRankedView =>
        LET view == result.view
            Lower2 == { <<"LOW", "MEDIUM">>, <<"LOW", "HIGH">>, <<"LOW", "CRITICAL">>,
                        <<"MEDIUM", "HIGH">>, <<"MEDIUM", "CRITICAL">>,
                        <<"HIGH", "CRITICAL">> }
        IN  \A i, j \in 1..Len(view) :
               <<view[i].triage_decision.risk_level,
                 view[j].triage_decision.risk_level>> \in Lower2 => j < i

\* a CRITICAL entry with less severity, less confidence and a shorter wait
\* ranked above a HIGH entry
C2_Witness ==
    /\ IsRankedView
    /\ Len(result.view) >= 2
    /\ LET a == result.view[1]
           b == result.view[2]
       IN  /\ a.triage_decision.risk_level = "CRITICAL"
           /\ b.triage_decision.risk_level = "HIGH"
           /\ a.triage_decision.confidence_score < b.triage_decision.confidence_score
           /\ get_patient_severity_score(a) < get_patient_severity_score(b)
           /\ a.wait_time_minutes < b.wait_time_minutes

\* the entries A, B, C of the worked example, added in that order
ExampleQueue ==
    /\ Len(queue) = 3
    /\ queue[1].triage_decision.risk_level = "MEDIUM"
    /\ get_patient_severity_score(queue[1]) = 2
    /\ queue[1].triage_decision.confidence_score = 80
    /\ queue[1].intake_timestamp = 0
    /\ \A k \in {2, 3} :
          /\ queue[k].triage_decision.risk_level = "HIGH"
          /\ get_patient_severity_score(queue[k]) = 1
          /\ queue[k].triage_decision.confidence_score = 50
    /\ queue[2].intake_timestamp = 1
    /\ queue[3].intake_timestamp = 0

\* C3: of two active entries with equal risk level, severity score and
\* confidence, the one with the earlier intake_timestamp is ranked first,
\* whatever the order they were added in; the example A, B, C ranks C, B, A.
C3_EarlierTimestampFirst ==
    IsRankedView =>
        LET view == result.view
        IN  /\ \A i, j \in 1..Len(view) :
                  ( /\ view[i].triage_decision.risk_level
                          = view[j].triage_decision.risk_level
                    /\ get_patient_severity_score(view[i])
                          = get_patient_severity_score(view[j])
                    /\ view[i].triage_decision.confidence_score
                          = view[j].triage_decision.confidence_score
                    /\ view[i].intake_timestamp < view[j].intake_timestamp )
                  => i < j
            /\ ExampleQueue => view = <<queue[3], queue[2], queue[1]>>

C3_Witness == IsRankedView /\ ExampleQueue

\* ========================================================================
\* Properties of the safety override (specification SpecOverride)
\* ========================================================================
Overridden == ov_out # None

\* the vitals are present and one of the three thresholds is crossed
VitalsBeyondThreshold ==
    /\ Len(ov_intake.vital_signs) = 1
    /\ LET v == ov_intake.vital_signs[1]
       IN  \/ \E x \in 0..89 : v.oxygen_saturation = <<x>>
           \/ \E x \in 0..89 : v.systolic_bp = <<x>>
           \/ \E x \in 131..300 : v.heart_rate = <<x>>

\* C4: when the vitals are present with oxygen_saturation < 90,
\* systolic_bp < 90 or heart_rate > 130, the override returns CRITICAL for
\* every raw decision and every symptom set.
C4_CriticalVitalsForceCritical ==
    (Overridden /\ VitalsBeyondThreshold) => ov_out[1].risk_level = "CRITICAL"

\* oxygen_saturation = 85 alone, no symptoms, raw decision LOW
C4_Witness ==
    /\ Overridden
    /\ ov_intake.symptoms = <<>>
    /\ ov_intake.vital_signs = Some(VitalSigns(None, None, Some(85)))
    /\ ov_raw.risk_level = "LOW"
    /\ ov_out[1].risk_level = "CRITICAL"

\* C5 as stated: a chief complaint containing "chest pain", vitals within
\* the thresholds and a raw LOW give HIGH whatever the symptom names are.
C5_ComplaintChestPainAtLeastHigh ==
    ( /\ Overridden
      /\ Contains(<<"chest", "pain">>, ov_intake.chief_complaint)
      /\ ~VitalsBeyondThreshold
      /\ ov_raw.risk_level = "LOW" )
    => ov_out[1].risk_level = "HIGH"

\* C5 (amended): a symptom whose name is "chest pain" in any letter case,
\* vitals within the thresholds and a raw LOW give HIGH (not CRITICAL),
\* whatever the chief complaint is.
C5_SymptomChestPainAtLeastHigh ==
    ( /\ Overridden
      /\ \E i \in 1..Len(ov_intake.symptoms) :
            ov_intake.symptoms[i].name \in
                { <<"chest", "pain">>, <<"Chest", "Pain">>, <<"Chest", "pain">> }
      /\ ~VitalsBeyondThreshold
      /\ ov_raw.risk_level = "LOW" )
    => ov_out[1].risk_level = "HIGH"

\* a capitalised "Chest Pain" symptom under a complaint that does not
\* mention it, raw LOW raised to HIGH
C5_Witness ==
    /\ Overridden
    /\ ov_intake.chief_complaint = <<"mild", "headache">>
    /\ ov_intake.symptoms = <<Symptom(<<"Chest", "Pain">>, "SEVERE")>>
    /\ ~VitalsBeyondThreshold
    /\ ov_raw.risk_level = "LOW"
    /\ ov_out[1].risk_level = "HIGH"

\* C6: for a raw confidence in [0,1] the confidence after one pass of the
\* override is in [0,1] (hundredths: 0..100).
C6_ConfidenceInUnitInterval ==
    (Overridden /\ ov_raw.confidence_score \in 0..100)
        => ov_out[1].confidence_score \in 0..100

\* both clamps act: 0.95 + 0.2 is cut to 1.0
C6_Witness ==
    /\ Overridden
    /\ VitalsBeyondThreshold
    /\ ov_raw.confidence_score = 95
    /\ ov_out[1].confidence_score = 100

\* ========================================================================
\* Properties of the audit trail and of the lookups (specification Spec)
\* ========================================================================
ReadOps ==
    {"get_sorted_queue", "get_queue_state", "get_analytics", "health_check",
     "export_audit_log"}

\* the log grew by exactly one record with this tag and patient id
AppendedOne(tag) ==
    /\ Len(audit_log') = Len(audit_log) + 1
    /\ SubSeq(audit_log', 1, Len(audit_log)) = audit_log
    /\ audit_log'[Len(audit_log')].action = tag
    /\ audit_log'[Len(audit_log')].patient_id = result'.patient_id

\* C7: every successful add, escalate and markSeen appends exactly one audit
\* record with the matching tag and the patient id; the read operations and
\* the calls that find no patient append none.
C7_OneRecordPerMutation ==
    [][ /\ result'.op = "add_patient" => AppendedOne("PATIENT_ADDED")
        /\ (result'.op = "escalate_patient" /\ result'.ret # None)
              => AppendedOne("ESCALATION")
        /\ (result'.op = "mark_seen" /\ result'.ret # None)
              => AppendedOne("PATIENT_SEEN")
        /\ ( \/ result'.op \in ReadOps
              \/ (result'.op \in {"escalate_patient", "mark_seen"}
                    /\ result'.ret = None) )
              => audit_log' = audit_log
      ]_vars

\* an add, an escalation and a removal have each left their record
C7_Witness ==
    /\ result.op = "mark_seen"
    /\ result.ret # None
    /\ Len(audit_log) = 3
    /\ audit_log[1].action = "PATIENT_ADDED"
    /\ audit_log[2].action = "ESCALATION"
    /\ audit_log[3].action = "PATIENT_SEEN"

\* C8: markSeen and escalate with a patient_id that is not active return
\* None, append no audit record and leave every entry unchanged.
C8_NotFoundNoEffect ==
    [][ ( /\ result'.op \in {"escalate_patient", "mark_seen"}
          /\ ~(\E i \in 1..Len(queue) : queue[i].patient_id = result'.patient_id) )
        => /\ result'.ret = None
           /\ audit_log' = audit_log
           /\ queue' = queue
      ]_vars

\* markSeen of a patient already seen, while another patient is waiting
C8_Witness ==
    /\ result.op = "mark_seen"
    /\ result.ret = None
    /\ Len(queue) = 1
    /\ queue[1].patient_id # result.patient_id
    /\ Len(audit_log) = 3
    /\ audit_log[3].action = "PATIENT_SEEN"
    /\ audit_log[3].patient_id = result.patient_id

\* C9: add with the patient_id of an active entry is rejected with
\* DuplicateEntry, and the active set and the audit log stay as they were.
C9_DuplicateAddRejected ==
    [][ ( /\ result'.op = "add_patient"
          /\ \E i \in 1..Len(queue) : queue[i].patient_id = result'.patient_id )
        => /\ result'.ret = "DuplicateEntry"
           /\ queue' = queue
           /\ audit_log' = audit_log
      ]_vars

\* C10: no two active entries have the same patient_id.
C10_UniqueActiveIds ==
    \A i, j \in 1..Len(queue) :
        i # j => queue[i].patient_id # queue[j].patient_id


\* ========================================================================
\* Escalation, snapshot, removal and the log (specification Spec)
\* ========================================================================
\* <<a, b>> is in RiskBelow when a is a lower risk level than b
RiskBelow ==
    { <<"LOW", "MEDIUM">>, <<"LOW", "HIGH">>, <<"LOW", "CRITICAL">>,
      <<"MEDIUM", "HIGH">>, <<"MEDIUM", "CRITICAL">>, <<"HIGH", "CRITICAL">> }

\* the slot of the first entry with this patient_id
SlotOf(q, pid) ==
    CHOOSE k \in 1..Len(q) :
        /\ q[k].patient_id = pid
        /\ \A l \in 1..(k - 1) : q[l].patient_id # pid

\* C11: the ranked view that directly follows a successful escalate(id, L)
\* shows the entry with level L, behind every entry of higher risk than L
\* and ahead of every entry of lower risk than L.
C11_EscalateThenRank ==
    [][ ( /\ result.op = "escalate_patient"
          /\ result.ret # None
          /\ result'.op = "get_sorted_queue" )
        => LET L == result.new_risk_level
               e == queue'[SlotOf(queue, result.patient_id)]
               p == e.queue_position
               view == result'.view
           IN  /\ e.triage_decision.risk_level = L
               /\ p \in 1..Len(view)
               /\ view[p] = e
               /\ \A j \in 1..Len(view) :
                     /\ <<L, view[j].triage_decision.risk_level>> \in RiskBelow
                           => j < p
                     /\ <<view[j].triage_decision.risk_level, L>> \in RiskBelow
                           => j > p
      ]_vars

\* the entry added second was MEDIUM, was escalated to CRITICAL and now
\* stands first, ahead of the HIGH entry added before it
C11_Witness ==
    /\ IsRankedView
    /\ Len(audit_log) = 3
    /\ audit_log[3].action = "ESCALATION"
    /\ audit_log[3].old_risk = "MEDIUM"
    /\ audit_log[3].new_risk = "CRITICAL"
    /\ Len(queue) = 2
    /\ queue[1].patient_id # queue[2].patient_id
    /\ queue[2].patient_id = audit_log[3].patient_id
    /\ queue[2].escalation_reason # None
    /\ result.view = <<queue[2], queue[1]>>
    /\ queue[1].triage_decision.risk_level = "HIGH"

\* C12: a snapshot's distribution has exactly the keys LOW, MEDIUM, HIGH and
\* CRITICAL, its counts add up to the total count, and the total count is
\* the number of active entries; also for the empty queue.
C12_DistributionSumsToTotal ==
    result.op = "get_queue_state" =>
        LET st == result.ret
        IN  /\ DOMAIN st.by_risk_level = {"LOW", "MEDIUM", "HIGH", "CRITICAL"}
            /\ st.by_risk_level["LOW"] + st.by_risk_level["MEDIUM"]
                 + st.by_risk_level["HIGH"] + st.by_risk_level["CRITICAL"]
                 = st.total_patients
            /\ st.total_patients = Len(queue)
            /\ \A level \in DOMAIN st.by_risk_level :
                  st.by_risk_level[level] >= 0

\* a snapshot of two HIGH entries: the other three levels are filled with 0
C12_Witness ==
    /\ result.op = "get_queue_state"
    /\ result.ret.total_patients = 2
    /\ result.ret.by_risk_level["HIGH"] = 2
    /\ result.ret.by_risk_level["LOW"] = 0
    /\ result.ret.by_risk_level["CRITICAL"] = 0

\* the ids that have a PATIENT_SEEN record
SeenIds ==
    {audit_log[i].patient_id :
        i \in {j \in 1..Len(audit_log) : audit_log[j].action = "PATIENT_SEEN"}}

\* C13: a patient_id that has been marked seen is never active again: it is
\* in no entry of the queue, of a ranked view or of a snapshot (so a later
\* escalate or markSeen of it finds no entry).
C13_SeenIsTerminal ==
    /\ \A k \in 1..Len(queue) : queue[k].patient_id \notin SeenIds
    /\ IsRankedView =>
          \A k \in 1..Len(result.view) : result.view[k].patient_id \notin SeenIds
    /\ result.op = "get_queue_state" =>
          \A k \in 1..Len(result.ret.patients) :
              result.ret.patients[k].patient_id \notin SeenIds

IsPrefix(a, b) == Len(a) <= Len(b) /\ SubSeq(b, 1, Len(a)) = a

\* C14: in every step the audit log before the step is a prefix of the
\* audit log after it.
C14_LogAppendOnly == [][IsPrefix(audit_log, audit_log')]_vars

\* the PATIENT_ADDED record of a patient is still first after the patient
\* was marked seen
C14_Witness ==
    /\ result.op = "mark_seen"
    /\ result.ret # None
    /\ Len(audit_log) = 3
    /\ audit_log[1].action = "PATIENT_ADDED"
    /\ audit_log[1].patient_id = result.patient_id
    /\ audit_log[2].action = "PATIENT_ADDED"
    /\ audit_log[2].patient_id # result.patient_id
    /\ audit_log[3].action = "PATIENT_SEEN"
    /\ audit_log[3].patient_id = result.patient_id
    /\ Len(queue) = 1

\* C17: of two active entries with the same risk level, the one with the
\* earlier intake_timestamp is ranked first.
C17_FifoWithinRiskLevel ==
    IsRankedView =>
        \A i, j \in 1..Len(result.view) :
            ( /\ result.view[i].triage_decision.risk_level
                    = result.view[j].triage_decision.risk_level
              /\ result.view[i].intake_timestamp
                    < result.view[j].intake_timestamp )
            => i < j


\* ========================================================================
\* Re-application of the override (specification SpecOverride)
\* ========================================================================
\* C18: applying the override to the decision it returned changes nothing:
\* the second result has the same risk_level, confidence_score and
\* reasoning as the first.
C18_OverrideIdempotent ==
    ov_twice # None =>
        /\ ov_twice[1].risk_level = ov_out[1].risk_level
        /\ ov_twice[1].confidence_score = ov_out[1].confidence_score
        /\ ov_twice[1].reasoning = ov_out[1].reasoning


\* ========================================================================
\* Concurrent callers of the HTTP API (specification SpecLoop)
\*
\* Every endpoint of backend.py is an `async def` whose body calls the
\* queue's methods directly and contains no `await`; uvicorn runs one
\* process with one event loop (workers=1).  A handler that has started
\* therefore runs to its return before the loop starts another one.
\* Requests of several callers are in flight together (pc = 0: received,
\* not yet started); the methods are broken into their statements so that
\* the states between two statements exist in the model.
\* ========================================================================
LoopSamples ==
    { s \in EntrySamples : s[2].risk_level \in {"MEDIUM", "HIGH"} }

LoopLevels == {"LOW", "CRITICAL"}

MutationOps == {"add_patient", "escalate_patient", "mark_seen"}

RankingOps == {"get_sorted_queue", "get_queue_state"}

Running(c) == tasks[c].op # "idle" /\ tasks[c].pc > 0

\* handlers scheduled as threads: a handler may run between any two
\* statements of another one
MayRunThreaded(c) == TRUE

\* only a running mutation keeps the other handlers waiting: a ranking
\* pass can be interrupted between two of its statements
MayRunUnlessMutating(c) ==
    \A d \in Callers \ {c} : Running(d) => tasks[d].op \notin MutationOps

\* the event loop starts or continues the handler of c only when no other
\* handler has started and not yet returned
MayRun(c) == \A d \in Callers \ {c} : ~Running(d)

\* mutations received or running, each of which will write one record
InFlight(ops) == Cardinality({c \in Callers : tasks[c].op \in ops})

\* a request arrives
Receive(c) ==
    /\ tasks[c].op = "idle"
    /\ \/ /\ Len(queue) + InFlight({"add_patient"}) < MaxQueue
          /\ Len(audit_log) + InFlight(MutationOps) < MaxLog
          /\ \E pid \in PatientIds, s \in LoopSamples :
                tasks' = [tasks EXCEPT ![c] =
                            [op |-> "add_patient", pc |-> 0,
                             entry |-> TriageEntry(pid, s[1], s[2], now)]]
       \/ /\ Len(audit_log) + InFlight(MutationOps) < MaxLog
          /\ \E pid \in PatientIds, r \in LoopLevels, why \in Reasons :
                tasks' = [tasks EXCEPT ![c] =
                            [op |-> "escalate_patient", pc |-> 0,
                             patient_id |-> pid, new_risk_level |-> r,
                             reason |-> why, slot |-> 0, old_level |-> r]]
       \/ /\ Len(audit_log) + InFlight(MutationOps) < MaxLog
          /\ \E pid \in PatientIds :
                tasks' = [tasks EXCEPT ![c] =
                            [op |-> "mark_seen", pc |-> 0,
                             patient_id |-> pid, removed |-> None]]
       \/ \E op \in RankingOps \cup {"export_audit_log"} :
                tasks' = [tasks EXCEPT ![c] =
                            [op |-> op, pc |-> 0, sorted_queue |-> <<>>]]
    /\ UNCHANGED <<qvars, ovars, exported>>

\* add_patient, statement by statement
StepAddPatient(c) ==
    LET t == tasks[c]
    IN  /\ t.op = "add_patient"
        /\ MayRun(c)
        /\ \/ /\ t.pc = 0
              /\ LET e == [t.entry EXCEPT !.queue_position = Len(queue) + 1,
                                          !.wait_time_minutes = 0]
                 IN  /\ queue' = Append(queue, e)
                     /\ tasks' = [tasks EXCEPT ![c] =
                                     [t EXCEPT !.pc = 1, !.entry = e]]
              /\ UNCHANGED <<audit_log, now, result, ovars, exported>>
           \/ /\ t.pc = 1
              /\ audit_log' = _log_action(audit_log, now, "PATIENT_ADDED",
                                  [patient_id |-> t.entry.patient_id,
                                   risk_level |-> t.entry.triage_decision.risk_level,
                                   position |-> t.entry.queue_position])
              /\ result' = [op |-> "add_patient",
                            patient_id |-> t.entry.patient_id, ret |-> "None"]
              /\ tasks' = [tasks EXCEPT ![c] = IdleTask]
              /\ UNCHANGED <<queue, now, ovars, exported>>


\* escalate_patient, statement by statement
StepEscalatePatient(c) ==
    LET t == tasks[c]
    IN  /\ t.op = "escalate_patient"
        /\ MayRun(c)
        /\ \/ /\ t.pc = 0
              /\ FirstIndex(queue, t.patient_id) = 0
              /\ result' = [op |-> "escalate_patient",
                            patient_id |-> t.patient_id,
                            new_risk_level |-> t.new_risk_level,
                            ret |-> None]
              /\ tasks' = [tasks EXCEPT ![c] = IdleTask]
              /\ UNCHANGED <<queue, audit_log, now, ovars, exported>>
           \/ /\ t.pc = 0
              /\ FirstIndex(queue, t.patient_id) # 0
              /\ LET i == FirstIndex(queue, t.patient_id)
                 IN  /\ queue' = [queue EXCEPT
                            ![i].triage_decision.risk_level = t.new_risk_level]
                     /\ tasks' = [tasks EXCEPT ![c] =
                            [t EXCEPT !.pc = 1, !.slot = i,
                                      !.old_level =
                                          queue[i].triage_decision.risk_level]]
              /\ UNCHANGED <<audit_log, now, result, ovars, exported>>
           \/ /\ t.pc = 1
              /\ t.slot \in 1..Len(queue)
              /\ queue' = [queue EXCEPT
                              ![t.slot].escalation_reason = Some(t.reason)]
              /\ tasks' = [tasks EXCEPT ![c] = [t EXCEPT !.pc = 2]]
              /\ UNCHANGED <<audit_log, now, result, ovars, exported>>
           \/ /\ t.pc = 2
              /\ t.slot \in 1..Len(queue)
              /\ audit_log' = _log_action(audit_log, now, "ESCALATION",
                                  [patient_id |-> t.patient_id,
                                   old_risk |-> t.old_level,
                                   new_risk |-> t.new_risk_level,
                                   reason |-> t.reason])
              /\ result' = [op |-> "escalate_patient",
                            patient_id |-> t.patient_id,
                            new_risk_level |-> t.new_risk_level,
                            ret |-> Some(queue[t.slot])]
              /\ tasks' = [tasks EXCEPT ![c] = IdleTask]
              /\ UNCHANGED <<queue, now, ovars, exported>>

\* mark_seen, statement by statement
StepMarkSeen(c) ==
    LET t == tasks[c]
    IN  /\ t.op = "mark_seen"
        /\ MayRun(c)
        /\ \/ /\ t.pc = 0
              /\ FirstIndex(queue, t.patient_id) = 0
              /\ result' = [op |-> "mark_seen", patient_id |-> t.patient_id,
                            ret |-> None]
              /\ tasks' = [tasks EXCEPT ![c] = IdleTask]
              /\ UNCHANGED <<queue, audit_log, now, ovars, exported>>
           \/ /\ t.pc = 0
              /\ FirstIndex(queue, t.patient_id) # 0
              /\ LET i == FirstIndex(queue, t.patient_id)
                 IN  /\ queue' = RemoveAt(queue, i)
                     /\ tasks' = [tasks EXCEPT ![c] =
                            [t EXCEPT !.pc = 1, !.removed = Some(queue[i])]]
              /\ UNCHANGED <<audit_log, now, result, ovars, exported>>
           \/ /\ t.pc = 1
              /\ audit_log' = _log_action(audit_log, now, "PATIENT_SEEN",
                                  [patient_id |-> t.patient_id,
                                   wait_time_minutes |->
                                       t.removed[1].wait_time_minutes,
                                   risk_level |->
                                       t.removed[1].triage_decision.risk_level])
              /\ result' = [op |-> "mark_seen", patient_id |-> t.patient_id,
                            ret |-> t.removed]
              /\ tasks' = [tasks EXCEPT ![c] = IdleTask]
              /\ UNCHANGED <<queue, now, ovars, exported>>

\* the TriageQueueState built from the list get_sorted_queue returned
SnapshotOf(sorted_queue, t) ==
    LET wait_times == [i \in 1..Len(sorted_queue) |->
                          sorted_queue[i].wait_time_minutes]
    IN  [total_patients |-> Len(sorted_queue),
         by_risk_level |-> [level \in RiskLevel |->
                               CountRisk(sorted_queue, level)],
         avg_wait_time |-> IF wait_times # <<>> THEN Mean(wait_times)
                           ELSE [num |-> 0, den |-> 1],
         patients |-> sorted_queue,
         timestamp |-> t]

\* get_sorted_queue, statement by statement, called by GET /queue or from
\* get_queue_state; `sorted_queue` holds the entries by their slots, which
\* stay put while the handler runs
StepRanking(c) ==
    LET t == tasks[c]
    IN  /\ t.op \in RankingOps
        /\ MayRun(c)
        /\ \/ /\ t.pc = 0
              /\ queue' = [k \in 1..Len(queue) |->
                             [queue[k] EXCEPT !.wait_time_minutes =
                                  now - queue[k].intake_timestamp]]
              /\ tasks' = [tasks EXCEPT ![c] = [t EXCEPT !.pc = 1]]
              /\ UNCHANGED <<audit_log, now, result, ovars, exported>>
           \/ /\ t.pc = 1
              /\ tasks' = [tasks EXCEPT ![c] =
                     [t EXCEPT !.pc = 2,
                               !.sorted_queue = SortedSlots(queue, Len(queue))]]
              /\ UNCHANGED <<qvars, ovars, exported>>
           \/ /\ t.pc = 2
              /\ queue' = [k \in 1..Len(queue) |->
                             IF \E i \in 1..Len(t.sorted_queue) :
                                    t.sorted_queue[i] = k
                             THEN [queue[k] EXCEPT !.queue_position =
                                      EnumerateFrom1(t.sorted_queue, k)]
                             ELSE queue[k]]
              /\ tasks' = [tasks EXCEPT ![c] = [t EXCEPT !.pc = 3]]
              /\ UNCHANGED <<audit_log, now, result, ovars, exported>>
           \/ /\ t.pc = 3
              /\ LET live == SelectSeq(t.sorted_queue,
                                       LAMBDA k : k \in 1..Len(queue))
                     view == [i \in 1..Len(live) |-> queue[live[i]]]
                 IN  result' =
                        IF t.op = "get_sorted_queue"
                        THEN [op |-> "get_sorted_queue", view |-> view]
                        ELSE [op |-> "get_queue_state",
                              ret |-> SnapshotOf(view, now)]
              /\ tasks' = [tasks EXCEPT ![c] = IdleTask]
              /\ UNCHANGED <<queue, audit_log, now, ovars, exported>>

\* export_audit_log: one statement
StepExportAuditLog(c) ==
    /\ tasks[c].op = "export_audit_log"
    /\ MayRun(c)
    /\ result' = [op |-> "export_audit_log", ret |-> audit_log]
    /\ tasks' = [tasks EXCEPT ![c] = IdleTask]
    /\ UNCHANGED <<queue, audit_log, now, ovars, exported>>

NextLoop ==
    \E c \in Callers :
        \/ Receive(c)
        \/ StepAddPatient(c)
        \/ StepEscalatePatient(c)
        \/ StepMarkSeen(c)
        \/ StepRanking(c)
        \/ StepExportAuditLog(c)

SpecLoop == Init /\ [][NextLoop]_vars


\* ------------------------------------------------------------------------
\* Claims on concurrent callers
\* ------------------------------------------------------------------------
\* what the audit records say the active set is: PATIENT_ADDED appends the
\* id with its level, ESCALATION sets the level of the first entry with the
\* id, PATIENT_SEEN removes the first entry with the id
RECURSIVE Replay(_, _)
Replay(log, n) ==
    IF n = 0 THEN <<>>
    ELSE LET prev == Replay(log, n - 1)
             r == log[n]
             i == FirstIndex(prev, r.patient_id)
         IN  CASE r.action = "PATIENT_ADDED" ->
                    Append(prev, [patient_id |-> r.patient_id,
                                  risk_level |-> r.risk_level])
               [] r.action = "ESCALATION" /\ i # 0 ->
                    [prev EXCEPT ![i].risk_level = r.new_risk]
               [] r.action = "PATIENT_SEEN" /\ i # 0 ->
                    RemoveAt(prev, i)
               [] OTHER -> prev

ActiveLevels(q) ==
    [k \in 1..Len(q) |-> [patient_id |-> q[k].patient_id,
                          risk_level |-> q[k].triage_decision.risk_level]]

\* C15: every statement of a handler that reads the queue or the log for a
\* caller (ranked view, snapshot, export) runs in a state where the active
\* entries and their risk levels are exactly what the audit records say:
\* no add, escalation or removal is visible without its record, and no
\* record without its change.
C15_ChangeAndRecordTogether ==
    [][ \A c \in Callers :
           ( /\ tasks[c].op \in RankingOps \cup {"export_audit_log"}
             /\ tasks'[c] # tasks[c] )
           => Replay(audit_log, Len(audit_log)) = ActiveLevels(queue)
      ]_vars

\* an export that shows the ESCALATION record was returned while another
\* caller's mutation request is waiting; the entry has the new level
C15_Witness ==
    /\ result.op = "export_audit_log"
    /\ Len(result.ret) = 2
    /\ result.ret[2].action = "ESCALATION"
    /\ result.ret[2].old_risk # result.ret[2].new_risk
    /\ Len(queue) = 1
    /\ queue[1].triage_decision.risk_level = result.ret[2].new_risk
    /\ queue[1].escalation_reason # None
    /\ \E c \in Callers : tasks[c].op \in MutationOps /\ tasks[c].pc = 0

\* C16: the list a ranked view returns is the correct ranking of the active
\* entries as they are at the instant it returns: every active entry once,
\* positions 1..N, ordered by the entries' levels at that instant.
C16_RankingPassAtomic ==
    [][ \A c \in Callers :
           ( /\ tasks[c].op = "get_sorted_queue"
             /\ tasks[c].pc = 3
             /\ tasks'[c] = IdleTask )
           => /\ Len(result'.view) = Len(queue')
              /\ \A k \in 1..Len(result'.view) :
                    result'.view[k].queue_position = k
              /\ result'.view = SortedView(queue', now')
      ]_vars

\* a ranked view of two entries, the second added ranked first, returned
\* while another caller's escalate of the first-ranked patient is waiting
C16_Witness ==
    /\ result.op = "get_sorted_queue"
    /\ Len(result.view) = 2
    /\ Len(queue) = 2
    /\ result.view = <<queue[2], queue[1]>>
    /\ \E c \in Callers :
          /\ tasks[c].op = "escalate_patient"
          /\ tasks[c].pc = 0
          /\ tasks[c].patient_id = queue[2].patient_id
          /\ tasks[c].patient_id # queue[1].patient_id


\* ========================================================================
\* POST /triage (specification SpecSubmit)
\*
\* A request body is the JSON object before pydantic has validated it:
\* chief_complaint is absent (None) or a text, vital_signs is absent or an
\* object of five optional numbers (temperature in tenths of a degree).
\* The classifier's answer is outside the program: `response` ranges over
\* the kinds of answer triage() distinguishes.
\* ========================================================================
BodyVitals(hr, sbp, dbp, temp, spo2) ==
    [heart_rate |-> hr, systolic_bp |-> sbp, diastolic_bp |-> dbp,
     temperature |-> temp, oxygen_saturation |-> spo2]

\* Field(None, ge=lo, le=hi) on an Optional number
InRange(v, lo, hi) == v = None \/ (v[1] >= lo /\ v[1] <= hi)

\* @validator("diastolic_bp"): runs on a supplied diastolic_bp once
\* systolic_bp has validated
bp_consistency(v) ==
    (v.diastolic_bp # None /\ v.systolic_bp # None)
        => v.diastolic_bp[1] < v.systolic_bp[1]

ValidVitalSigns(v) ==
    /\ InRange(v.heart_rate, 0, 300)
    /\ InRange(v.systolic_bp, 50, 300)
    /\ InRange(v.diastolic_bp, 30, 200)
    /\ InRange(v.temperature, 350, 420)
    /\ InRange(v.oxygen_saturation, 70, 100)
    /\ bp_consistency(v)

\* PatientIntake as the request model: chief_complaint is required (any
\* str), symptoms defaults to the empty list, vital_signs is optional
ValidPatientIntake(body) ==
    /\ body.chief_complaint # None
    /\ body.vital_signs # None => ValidVitalSigns(body.vital_signs[1])

\* the PatientIntake object pydantic builds from a valid body
ParseIntake(body) ==
    PatientIntake(body.chief_complaint[1], body.symptoms,
        IF body.vital_signs = None THEN None
        ELSE Some(VitalSigns(body.vital_signs[1].heart_rate,
                             body.vital_signs[1].systolic_bp,
                             body.vital_signs[1].oxygen_saturation)))

\* ------------------------------------------------------------------------
\* triage_engine.py : triage, _validate_and_repair_output, _fallback_triage
\* ------------------------------------------------------------------------
high_risk_keywords ==
    { <<"chest", "pain">>, <<"dyspnea">>, <<"stroke">>, <<"unconscious">>,
      <<"bleeding">>, <<"severe">> }

\* a fallback that grades MEDIUM from two symptoms on
FallbackMediumFromTwo(intake) ==
    LET chief_complaint_lower == Lower(intake.chief_complaint)
        high_risk_count ==
            Cardinality({kw \in high_risk_keywords :
                            Contains(kw, chief_complaint_lower)})
        severe_symptoms ==
            \E i \in 1..Len(intake.symptoms) :
                intake.symptoms[i].severity \in {"SEVERE", "CRITICAL"}
        risk_level ==
            IF high_risk_count >= 1 \/ severe_symptoms THEN "HIGH"
            ELSE IF Len(intake.symptoms) >= 2 THEN "MEDIUM"
            ELSE "LOW"
    IN  TriageDecision(risk_level, 65, Some(<<"fallback">>))

_fallback_triage(intake) ==
    LET chief_complaint_lower == Lower(intake.chief_complaint)
        high_risk_count ==
            Cardinality({kw \in high_risk_keywords :
                            Contains(kw, chief_complaint_lower)})
        severe_symptoms ==
            \E i \in 1..Len(intake.symptoms) :
                intake.symptoms[i].severity \in {"SEVERE", "CRITICAL"}
        risk_level ==
            IF high_risk_count >= 1 \/ severe_symptoms THEN "HIGH"
            ELSE IF Len(intake.symptoms) > 2 THEN "MEDIUM"
            ELSE "LOW"
    IN  TriageDecision(risk_level, 65, Some(<<"fallback">>))

\* str(x).upper().strip() on the risk_level texts a classifier produced
UpperStrip(w) ==
    CASE w = "low" -> "LOW"
      [] w = " high " -> "HIGH"
      [] OTHER -> w

\* the parsed JSON object.  risk_level, confidence_score, reasoning: None
\* when the key is missing.  confidence_score holds Number(n), n in
\* hundredths, or NotANumber, a value float() refuses.  clinical_summary and
\* suggested_next_steps hold the kind of value: "absent", "str", "dict",
\* and for suggested_next_steps also "list_of_str" and "list_of_dict".
Number(n) == [is_number |-> TRUE, n |-> n]

NotANumber == [is_number |-> FALSE, n |-> 0]

RawOutput(level, conf, summary, steps, reasoning) ==
    [risk_level |-> level, confidence_score |-> conf,
     clinical_summary |-> summary, suggested_next_steps |-> steps,
     reasoning |-> reasoning]

\* the outcome of a call: an exception leaves it, or a value is returned
Raised(exc) == [raised |-> TRUE, exc |-> exc]

Returned(v) == [raised |-> FALSE, value |-> v]

_validate_and_repair_output(raw_output) ==
    LET summary == IF raw_output.clinical_summary = "absent" THEN "str"
                   ELSE raw_output.clinical_summary
        level == IF raw_output.risk_level = None THEN "MEDIUM"
                 ELSE IF UpperStrip(raw_output.risk_level[1]) \notin RiskLevel
                      THEN "MEDIUM"
                      ELSE UpperStrip(raw_output.risk_level[1])
        steps == IF raw_output.suggested_next_steps \in {"absent", "list_of_str"}
                 THEN "str"
                 ELSE raw_output.suggested_next_steps
        score == IF raw_output.confidence_score = None THEN 75
                 ELSE IF raw_output.confidence_score[1].is_number
                      THEN Max(0, Min(100, raw_output.confidence_score[1].n))
                      ELSE 75
        reasoning == IF raw_output.reasoning = None THEN Some(<<>>)
                     ELSE raw_output.reasoning
    IN  IF raw_output.suggested_next_steps = "list_of_dict"
        THEN Raised("TypeError")
        ELSE Returned(RawOutput(Some(level), Some(Number(score)), summary, steps,
                                reasoning))


\* what requests.post and the parsing of its answer come to
ResponseKinds ==
    {"exception",      \* requests.post raised (connection refused, timeout)
     "status_500",     \* an answer with status_code # 200
     "no_json",        \* 200, no "{" or no "}" in the text
     "bad_json",       \* 200, json.loads raises
     "object"}         \* 200, json.loads returns a dict

Response(kind, raw_output) == [kind |-> kind, raw_output |-> raw_output]

\* TriageDecision(...) of the repaired output: pydantic refuses a dict
\* where a str is declared
DecisionBuilds(repaired) ==
    /\ repaired.clinical_summary = "str"
    /\ repaired.suggested_next_steps = "str"

triage(intake, response) ==
    IF response.kind # "object"
    THEN Returned(_fallback_triage(intake))
    ELSE LET repaired == _validate_and_repair_output(response.raw_output)
         IN  IF repaired.raised THEN repaired
             ELSE IF DecisionBuilds(repaired.value)
                  THEN Returned(TriageDecision(
                                  repaired.value.risk_level[1],
                                  repaired.value.confidence_score[1].n,
                                  repaired.value.reasoning))
                  ELSE Returned(_fallback_triage(intake))

\* a run_triage that passes the decision through the override twice
RunTriageOverrideTwice(intake, response) ==
    LET decision == triage(intake, response)
    IN  IF decision.raised THEN decision
        ELSE Returned(apply_clinical_overrides(intake,
                        apply_clinical_overrides(intake, decision.value)))

run_triage(intake, response) ==
    LET decision == triage(intake, response)
    IN  IF decision.raised THEN decision
        ELSE Returned(apply_clinical_overrides(intake, decision.value))

\* ------------------------------------------------------------------------
\* backend.py : submit_triage
\* ------------------------------------------------------------------------
\* str(uuid4()): an id no entry and no audit record has
UuidPool == <<"u1", "u2", "u3", "u4">>

uuid4 ==
    UuidPool[CHOOSE i \in 1..Len(UuidPool) :
                /\ \A k \in 1..Len(audit_log) :
                      audit_log[k].patient_id # UuidPool[i]
                /\ \A j \in 1..(i - 1) :
                      \E k \in 1..Len(audit_log) :
                          audit_log[k].patient_id = UuidPool[j]]

\* FastAPI validates the body against PatientIntake before the handler
\* runs and answers 422 itself; the handler turns every exception into 500
submit_triage(body, response) ==
    IF ~ValidPatientIntake(body)
    THEN /\ result' = [op |-> "submit_triage", body |-> body, status |-> 422]
         /\ UNCHANGED <<queue, audit_log, now>>
    ELSE LET intake == ParseIntake(body)
             triage_decision == run_triage(intake, response)
         IN  IF triage_decision.raised
             THEN /\ result' = [op |-> "submit_triage", body |-> body,
                                response |-> response, status |-> 500]
                  /\ UNCHANGED <<queue, audit_log, now>>
             ELSE LET entry == TriageEntry(uuid4, intake,
                                           triage_decision.value, now)
                      e == [entry EXCEPT !.queue_position = Len(queue) + 1,
                                         !.wait_time_minutes = 0]
                  IN  /\ queue' = Append(queue, e)
                      /\ audit_log' =
                            _log_action(audit_log, now, "PATIENT_ADDED",
                                [patient_id |-> e.patient_id,
                                 risk_level |-> e.triage_decision.risk_level,
                                 position |-> e.queue_position])
                      /\ result' = [op |-> "submit_triage", body |-> body,
                                    response |-> response, status |-> 200,
                                    ret |-> e]
                      /\ UNCHANGED now

\* --- request bodies and classifier answers ---
BaseVitals == BodyVitals(Some(80), Some(120), Some(80), Some(370), Some(98))

SubmitVitals ==
    { None, Some(BaseVitals),
      Some([BaseVitals EXCEPT !.oxygen_saturation = Some(85)]),
      Some([BaseVitals EXCEPT !.oxygen_saturation = Some(69)]),
      Some([BaseVitals EXCEPT !.oxygen_saturation = Some(101)]),
      Some([BaseVitals EXCEPT !.heart_rate = Some(301)]),
      Some([BaseVitals EXCEPT !.heart_rate = Some(-1)]),
      Some([BaseVitals EXCEPT !.systolic_bp = Some(49)]),
      Some([BaseVitals EXCEPT !.diastolic_bp = Some(29)]),
      Some([BaseVitals EXCEPT !.temperature = Some(349)]),
      Some([BaseVitals EXCEPT !.temperature = Some(421)]),
      Some([BaseVitals EXCEPT !.diastolic_bp = Some(119)]),
      Some([BaseVitals EXCEPT !.diastolic_bp = Some(120)]),
      Some([BaseVitals EXCEPT !.diastolic_bp = Some(121)]) }

Body(cc, symptoms, vitals) ==
    [chief_complaint |-> cc, symptoms |-> symptoms, vital_signs |-> vitals]

BaseSymptoms == << Symptom(<<"headache">>, "MODERATE") >>

Bodies ==
    { Body(Some(<<"mild", "headache">>), BaseSymptoms, v) : v \in SubmitVitals }
    \cup { Body(None, BaseSymptoms, Some(BaseVitals)),
           Body(Some(<<>>), BaseSymptoms, Some(BaseVitals)),
           Body(Some(<<"Chest", "pain">>), <<>>, None),
           Body(Some(<<"mild", "headache">>),
                <<Symptom(<<"Chest", "pain">>, "MODERATE")>>, None) }

BaseOutput ==
    RawOutput(Some("HIGH"), Some(Number(80)), "str", "str", Some(<<"model">>))

RawOutputs ==
    { BaseOutput,
      [BaseOutput EXCEPT !.risk_level = Some("low")],
      [BaseOutput EXCEPT !.risk_level = Some("URGENT")],
      [BaseOutput EXCEPT !.risk_level = None],
      [BaseOutput EXCEPT !.confidence_score = Some(Number(150))],
      [BaseOutput EXCEPT !.confidence_score = Some(NotANumber)],
      [BaseOutput EXCEPT !.confidence_score = None],
      [BaseOutput EXCEPT !.clinical_summary = "absent"],
      [BaseOutput EXCEPT !.clinical_summary = "dict"],
      [BaseOutput EXCEPT !.suggested_next_steps = "absent"],
      [BaseOutput EXCEPT !.suggested_next_steps = "list_of_str"],
      [BaseOutput EXCEPT !.suggested_next_steps = "list_of_dict"],
      [BaseOutput EXCEPT !.suggested_next_steps = "dict"],
      [BaseOutput EXCEPT !.reasoning = None] }

Responses ==
    { Response(k, None) : k \in ResponseKinds \ {"object"} }
    \cup { Response("object", r) : r \in RawOutputs }

SubmitTriage ==
    /\ Len(queue) < MaxSubmits
    /\ \E body \in Bodies, response \in Responses :
          submit_triage(body, response)
    /\ UNCHANGED <<ovars, tasks, exported>>

NextSubmit == SubmitTriage

SpecSubmit == Init /\ [][NextSubmit]_vars


\* ------------------------------------------------------------------------
\* Claims on POST /triage
\* ------------------------------------------------------------------------
\* a body the intake rules call invalid
InvalidIntake(body) ==
    \/ body.chief_complaint = None
    \/ body.chief_complaint = Some(<<>>)
    \/ body.symptoms = <<>>
    \/ /\ body.vital_signs # None
       /\ LET v == body.vital_signs[1]
          IN  \/ ~InRange(v.heart_rate, 0, 300)
              \/ ~InRange(v.systolic_bp, 50, 300)
              \/ ~InRange(v.diastolic_bp, 30, 200)
              \/ ~InRange(v.temperature, 350, 420)
              \/ ~InRange(v.oxygen_saturation, 70, 100)
              \/ /\ v.diastolic_bp # None
                 /\ v.systolic_bp # None
                 /\ v.diastolic_bp[1] >= v.systolic_bp[1]

\* C19: a submission whose chief complaint is empty, whose symptom list is
\* empty, one of whose vital signs is out of range, or whose diastolic_bp
\* is not below its systolic_bp is answered with a validation error, and
\* it adds no entry and writes no audit record.
C19_InvalidIntakeRejected ==
    [][ (result'.op = "submit_triage" /\ InvalidIntake(result'.body))
        => /\ result'.status = 422
           /\ queue' = queue
           /\ audit_log' = audit_log
      ]_vars

\* the classifier call failed: no usable answer, or an answer whose fields
\* are not a risk level, a number in [0, 1] and two texts
ClassifierFailed(response) ==
    \/ response.kind # "object"
    \/ LET o == response.raw_output
       IN  \/ o.risk_level # None /\ UpperStrip(o.risk_level[1]) \notin RiskLevel
           \/ /\ o.confidence_score # None
              /\ \/ ~o.confidence_score[1].is_number
                 \/ o.confidence_score[1].n \notin 0..100
           \/ o.clinical_summary \notin {"absent", "str"}
           \/ o.suggested_next_steps \notin {"absent", "str"}

\* C20: when the classifier call fails, the submission still succeeds: the
\* entry is added with the fallback decision after the safety override,
\* and one PATIENT_ADDED record is written.
C20_ClassifierFailureFallsBack ==
    [][ ( /\ result'.op = "submit_triage"
          /\ result'.status # 422
          /\ ClassifierFailed(result'.response) )
        => /\ result'.status = 200
           /\ Len(queue') = Len(queue) + 1
           /\ LET e == queue'[Len(queue')]
              IN  e.triage_decision =
                     apply_clinical_overrides(e.intake, _fallback_triage(e.intake))
           /\ Len(audit_log') = Len(audit_log) + 1
           /\ audit_log'[Len(audit_log')].action = "PATIENT_ADDED"
      ]_vars


\* ========================================================================
\* The ranking as a function of the queue (specification SpecRank)
\*
\* The queue starts as any list of up to MaxQueue entries that add_patient
\* can have built, one PATIENT_ADDED record each; get_sorted_queue is then
\* applied to it.
\* ========================================================================
RankIds == <<"p1", "p2", "p3", "p4">>

RankSymptoms ==
    { <<>>,
      << Symptom(<<"headache">>, "MILD") >>,
      << Symptom(<<"headache">>, "MILD"), Symptom(<<"chest", "pain">>, "SEVERE") >> }

RankDecisions ==
    { TriageDecision(r, c, None) : r \in {"MEDIUM", "HIGH"}, c \in {50, 80} }

RankEntries ==
    { [intake |-> PatientIntake(<<"mild", "headache">>, sy, None),
       triage_decision |-> d,
       intake_timestamp |-> ts] :
        sy \in RankSymptoms, d \in RankDecisions, ts \in 0..MaxTime }

\* the queue and the log after add_patient was called with each of es
QueueOf(es) ==
    [k \in 1..Len(es) |->
        [TriageEntry(RankIds[k], es[k].intake, es[k].triage_decision,
                     es[k].intake_timestamp)
            EXCEPT !.queue_position = k]]

LogOf(es) ==
    [k \in 1..Len(es) |->
        [timestamp |-> es[k].intake_timestamp, action |-> "PATIENT_ADDED",
         patient_id |-> RankIds[k],
         risk_level |-> es[k].triage_decision.risk_level,
         position |-> k]]

InitRank ==
    /\ \E es \in SeqsUpTo(RankEntries, MaxQueue) :
          /\ queue = QueueOf(es)
          /\ audit_log = LogOf(es)
    /\ now = MaxTime
    /\ result = [op |-> "init"]
    /\ OvIdle
    /\ LoopIdle
    /\ ExportIdle

NextRank == get_sorted_queue /\ UNCHANGED <<ovars, tasks, exported>>

SpecRank == InitRank /\ [][NextRank]_vars

\* C21: in a ranked view, of two entries with the same risk level the one
\* with the higher severity score (largest of MILD=1, MODERATE=2, SEVERE=3,
\* CRITICAL=4 over its symptoms, 0 without symptoms) stands first whatever
\* their confidence and timestamps; of two with the same risk level and
\* severity score the one with the higher confidence stands first whatever
\* their timestamps.
C21_LexicographicRanking ==
    IsRankedView =>
        LET view == result.view
            risk(k) == view[k].triage_decision.risk_level
            conf(k) == view[k].triage_decision.confidence_score
            score(k) ==
                LET sy == view[k].intake.symptoms
                    has(sev) == \E n \in 1..Len(sy) : sy[n].severity = sev
                IN  IF has("CRITICAL") THEN 4
                    ELSE IF has("SEVERE") THEN 3
                    ELSE IF has("MODERATE") THEN 2
                    ELSE IF has("MILD") THEN 1
                    ELSE 0
        IN  \A i, j \in 1..Len(view) :
               /\ (risk(i) = risk(j) /\ score(i) > score(j)) => i < j
               /\ (risk(i) = risk(j) /\ score(i) = score(j) /\ conf(i) > conf(j))
                     => i < j

\* three HIGH entries: severity 3 with the lower confidence and the later
\* timestamp stands first; then, severity 0 both, confidence 0.8 with the
\* later timestamp stands ahead of confidence 0.5
C21_Witness ==
    /\ IsRankedView
    /\ Len(result.view) = 3
    /\ \A k \in 1..3 : result.view[k].triage_decision.risk_level = "HIGH"
    /\ Len(result.view[1].intake.symptoms) = 2
    /\ result.view[1].triage_decision.confidence_score = 50
    /\ result.view[1].intake_timestamp = 1
    /\ result.view[2].intake.symptoms = <<>>
    /\ result.view[2].triage_decision.confidence_score = 80
    /\ result.view[2].intake_timestamp = 1
    /\ result.view[3].intake.symptoms = <<>>
    /\ result.view[3].triage_decision.confidence_score = 50
    /\ result.view[3].intake_timestamp = 0


\* ========================================================================
\* The rule chain of the override (specification SpecOverride)
\* ========================================================================
\* some symptom is named "chest pain" in some letter case
NamesRedFlag ==
    \E i \in 1..Len(ov_intake.symptoms) :
        ov_intake.symptoms[i].name \in
            { <<"chest", "pain">>, <<"Chest", "Pain">>, <<"Chest", "pain">> }

\* some symptom has severity SEVERE or CRITICAL
HasSevereSymptom ==
    \E i \in 1..Len(ov_intake.symptoms) :
        ov_intake.symptoms[i].severity = "SEVERE"
            \/ ov_intake.symptoms[i].severity = "CRITICAL"

RawReasoning == IF ov_raw.reasoning = None THEN <<>> ELSE ov_raw.reasoning[1]

\* c + 0.1 cut at 1.0 with a SEVERE/CRITICAL symptom, c - 0.05 held at 0.5
\* without one
Calibrated(c) ==
    IF HasSevereSymptom
    THEN (IF c + 10 > 100 THEN 100 ELSE c + 10)
    ELSE (IF c - 5 < 50 THEN 50 ELSE c - 5)

\* C22: when the critical-vitals rule fires the result is CRITICAL with
\* confidence min(1.0, c + 0.2), and its reasoning is the raw reasoning
\* plus the critical-vitals note only: no red-flag note and no +0.1 / -0.05
\* calibration, also with a red-flag or SEVERE symptom.
C22_CriticalVitalsStops ==
    (Overridden /\ VitalsBeyondThreshold) =>
        /\ ov_out[1].risk_level = "CRITICAL"
        /\ ov_out[1].confidence_score =
              (IF ov_raw.confidence_score + 20 > 100 THEN 100
               ELSE ov_raw.confidence_score + 20)
        /\ ov_out[1].reasoning = Some(RawReasoning \o <<"critical-vitals">>)

\* oxygen_saturation 85 with a SEVERE "Chest Pain" symptom, raw LOW at 0.5:
\* CRITICAL at exactly 0.7
C22_Witness ==
    /\ Overridden
    /\ VitalsBeyondThreshold
    /\ NamesRedFlag
    /\ HasSevereSymptom
    /\ ov_raw.risk_level = "LOW"
    /\ ov_raw.confidence_score = 50
    /\ ov_out[1].confidence_score = 70
    /\ ov_out[1].risk_level = "CRITICAL"

\* C23: with the vitals absent, with the three fields missing, or with
\* oxygen_saturation >= 90, systolic_bp >= 90 and heart_rate <= 130, the
\* critical-vitals rule does not fire: a decision is returned, it carries
\* no critical-vitals note, and it is CRITICAL only if the raw one was.
C23_CriticalVitalsStrict ==
    (Overridden /\ ~VitalsBeyondThreshold) =>
        /\ ov_out[1].risk_level = "CRITICAL" => ov_raw.risk_level = "CRITICAL"
        /\ ov_out[1].reasoning \in
              { ov_raw.reasoning, Some(RawReasoning \o <<"red-flag">>) }

\* the three boundary values together, raw MEDIUM, no symptoms: MEDIUM
C23_Witness ==
    /\ Overridden
    /\ ov_intake.vital_signs = Some(VitalSigns(Some(130), Some(90), Some(90)))
    /\ ov_intake.symptoms = <<>>
    /\ ov_raw.risk_level = "MEDIUM"
    /\ ov_out[1].risk_level = "MEDIUM"
    /\ ov_out[1].reasoning = ov_raw.reasoning

\* C24: when the critical-vitals rule does not fire and a symptom is named
\* "chest pain" in any letter case, a raw LOW or MEDIUM becomes HIGH, a raw
\* HIGH or CRITICAL stays, and the confidence is calibrated afterwards.
C24_RedFlagRaisesToHigh ==
    (Overridden /\ ~VitalsBeyondThreshold /\ NamesRedFlag) =>
        /\ ov_raw.risk_level \in {"LOW", "MEDIUM"}
              => /\ ov_out[1].risk_level = "HIGH"
                 /\ ov_out[1].reasoning = Some(RawReasoning \o <<"red-flag">>)
        /\ ov_raw.risk_level \in {"HIGH", "CRITICAL"}
              => /\ ov_out[1].risk_level = ov_raw.risk_level
                 /\ ov_out[1].reasoning = ov_raw.reasoning
        /\ ov_out[1].confidence_score = Calibrated(ov_raw.confidence_score)

\* a raw CRITICAL with a MILD "chest pain" symptom stays CRITICAL and its
\* confidence 0.8 is calibrated to 0.75
C24_Witness ==
    /\ Overridden
    /\ ~VitalsBeyondThreshold
    /\ ov_intake.symptoms = <<Symptom(<<"chest", "pain">>, "MILD")>>
    /\ ov_raw.risk_level = "CRITICAL"
    /\ ov_raw.confidence_score = 80
    /\ ov_out[1].risk_level = "CRITICAL"
    /\ ov_out[1].confidence_score = 75

\* C25: whenever the critical-vitals rule does not fire, the confidence is
\* min(1.0, c + 0.1) with a SEVERE or CRITICAL symptom and
\* max(0.5, c - 0.05) without one, whether or not the red-flag rule fired.
C25_CalibratedOnce ==
    (Overridden /\ ~VitalsBeyondThreshold) =>
        ov_out[1].confidence_score = Calibrated(ov_raw.confidence_score)

\* the red-flag rule fired (LOW raised to HIGH) and 0.95 + 0.1 was cut to 1.0
C25_Witness ==
    /\ Overridden
    /\ ~VitalsBeyondThreshold
    /\ HasSevereSymptom
    /\ ov_raw.risk_level = "LOW"
    /\ ov_out[1].risk_level = "HIGH"
    /\ ov_raw.confidence_score = 95
    /\ ov_out[1].confidence_score = 100

\* C26 as stated: without critical vitals and without a SEVERE or CRITICAL
\* symptom the confidence after the override is at most the raw one, for
\* every raw confidence in [0, 1].
C26_ConfidenceNeverRaised ==
    (Overridden /\ ~VitalsBeyondThreshold /\ ~HasSevereSymptom
        /\ ov_raw.confidence_score \in 0..100)
    => ov_out[1].confidence_score <= ov_raw.confidence_score

\* C26 (amended): without critical vitals and without a SEVERE or CRITICAL
\* symptom, a raw confidence of at least 0.5 is not raised, and a raw
\* confidence below 0.5 is raised to exactly 0.5.
C26_ConfidenceLoweredAboveFloor ==
    (Overridden /\ ~VitalsBeyondThreshold /\ ~HasSevereSymptom) =>
        /\ ov_raw.confidence_score \in 50..100
              => ov_out[1].confidence_score <= ov_raw.confidence_score
        /\ ov_raw.confidence_score \in 0..49
              => ov_out[1].confidence_score = 50

\* a raw confidence of 0.3 comes out as 0.5
C26_Witness ==
    /\ Overridden
    /\ ~VitalsBeyondThreshold
    /\ ~HasSevereSymptom
    /\ ov_raw.confidence_score = 30
    /\ ov_out[1].confidence_score = 50


\* ========================================================================
\* Effects of escalate, markSeen and the reads (specification Spec)
\* ========================================================================
\* C27: a successful escalate(id, L, reason) sets the entry's risk_level to
\* L, whatever L is relative to the level before, and its escalation_reason
\* to the reason; it appends one ESCALATION record with the level before the
\* call as old value and L as new value; the entry's other fields, the other
\* entries and the membership of the queue stay as they were.
C27_EscalateSetsLevelOnly ==
    [][ (result'.op = "escalate_patient" /\ result'.ret # None)
        => LET i == SlotOf(queue, result'.patient_id)
               L == result'.new_risk_level
               rec == audit_log'[Len(audit_log')]
           IN  /\ Len(queue') = Len(queue)
               /\ \A k \in 1..Len(queue) : k # i => queue'[k] = queue[k]
               /\ queue'[i] = [queue[i] EXCEPT
                                  !.triage_decision.risk_level = L,
                                  !.escalation_reason = Some(rec.reason)]
               /\ result'.ret = Some(queue'[i])
               /\ audit_log' = Append(audit_log, rec)
               /\ rec.action = "ESCALATION"
               /\ rec.patient_id = result'.patient_id
               /\ rec.old_risk = queue[i].triage_decision.risk_level
               /\ rec.new_risk = L
               /\ rec.reason \in Reasons
      ]_vars

\* a de-escalation from HIGH to LOW, with another entry in the queue
C27_Witness ==
    /\ result.op = "escalate_patient"
    /\ result.ret # None
    /\ result.new_risk_level = "LOW"
    /\ Len(queue) = 2
    /\ Len(audit_log) = 3
    /\ audit_log[3].action = "ESCALATION"
    /\ audit_log[3].old_risk = "HIGH"
    /\ audit_log[3].new_risk = "LOW"
    /\ result.ret[1].triage_decision.risk_level = "LOW"
    /\ result.ret[1].triage_decision.confidence_score = 50

\* C28: a successful markSeen(id) removes the one entry and appends a
\* PATIENT_SEEN record with the entry's current risk level and with the time
\* elapsed since its intake_timestamp as wait_time_minutes; the other
\* entries keep their fields.
C28_SeenRecordsFinalWait ==
    [][ (result'.op = "mark_seen" /\ result'.ret # None)
        => LET i == SlotOf(queue, result'.patient_id)
               rec == audit_log'[Len(audit_log')]
           IN  /\ queue' = SubSeq(queue, 1, i - 1) \o SubSeq(queue, i + 1, Len(queue))
               /\ audit_log' = Append(audit_log, rec)
               /\ rec.action = "PATIENT_SEEN"
               /\ rec.patient_id = result'.patient_id
               /\ rec.risk_level = queue[i].triage_decision.risk_level
               /\ rec.wait_time_minutes = now - queue[i].intake_timestamp
      ]_vars

\* C29: get_sorted_queue and get_queue_state leave the audit log, the
\* number and the order of the entries in the backing list, and every field
\* of every entry other than wait_time_minutes and queue_position unchanged.
C29_ReadsWriteDerivedFieldsOnly ==
    [][ result'.op \in {"get_sorted_queue", "get_queue_state"}
        => /\ audit_log' = audit_log
           /\ Len(queue') = Len(queue)
           /\ \A k \in 1..Len(queue) :
                 [queue'[k] EXCEPT !.wait_time_minutes = 0, !.queue_position = 0]
                    = [queue[k] EXCEPT !.wait_time_minutes = 0,
                                       !.queue_position = 0]
      ]_vars

\* after a ranked view the entry added first is still first in the backing
\* list, with position 2 and a waiting time of one minute written into it
C29_Witness ==
    /\ IsRankedView
    /\ Len(queue) = 2
    /\ result.view = <<queue[2], queue[1]>>
    /\ queue[1].queue_position = 2
    /\ queue[2].queue_position = 1
    /\ queue[1].wait_time_minutes = 1
    /\ audit_log[1].patient_id = queue[1].patient_id
    /\ audit_log[2].patient_id = queue[2].patient_id


\* ========================================================================
\* A caller holding the exported audit log (specification SpecExport)
\*
\* export_audit_log returns self.audit_log.copy(): a new list whose
\* elements are the dict objects of the log themselves.  A record object is
\* named by its index in audit_log; `exported` is the caller's list, each
\* element the index of the log record it refers to, or 0 for a dict the
\* caller made.
\* ========================================================================
ExportToCaller ==
    /\ export_audit_log
    /\ exported' = [k \in 1..Len(audit_log) |-> k]
    /\ UNCHANGED <<ovars, tasks>>

\* exported.append({...})
CallerAppend ==
    /\ Len(exported) <= MaxLog
    /\ exported' = Append(exported, 0)
    /\ result' = [op |-> "caller_append"]
    /\ UNCHANGED <<queue, audit_log, now, ovars, tasks>>

\* exported.pop()
CallerPop ==
    /\ exported # <<>>
    /\ exported' = SubSeq(exported, 1, Len(exported) - 1)
    /\ result' = [op |-> "caller_pop"]
    /\ UNCHANGED <<queue, audit_log, now, ovars, tasks>>

\* exported[k]["action"] = "EDITED": a write to the dict the element
\* refers to
CallerEdit ==
    \E k \in 1..Len(exported) :
        /\ audit_log' = IF exported[k] # 0
                        THEN [audit_log EXCEPT ![exported[k]].action = "EDITED"]
                        ELSE audit_log
        /\ result' = [op |-> "caller_edit", index |-> k]
        /\ UNCHANGED <<queue, now, exported, ovars, tasks>>

NextExport ==
    \/ AddPatient /\ UNCHANGED <<ovars, tasks, exported>>
    \/ MarkSeen /\ UNCHANGED <<ovars, tasks, exported>>
    \/ ExportToCaller
    \/ CallerAppend
    \/ CallerPop
    \/ CallerEdit

SpecExport == Init /\ [][NextExport]_vars

\* C30: nothing a caller does to the list export_audit_log returned, or to
\* a record in it (appending, removing, editing a field), changes the
\* queue's audit log, and so what a later export returns.
C30_ExportIsolated ==
    [][ result'.op \in {"caller_append", "caller_pop", "caller_edit"}
        => audit_log' = audit_log ]_vars

\* ------------------------------------------------------------------------
\* health_check over long waits: the clock moves between sample instants
\* that put waits on both sides of the 15-minute threshold (15 and 16)
\* ------------------------------------------------------------------------
ClockSamples == {0, 1, 16}

\* an entry built by POST /triage now, or one whose intake was stamped at
\* an earlier sample instant
AddPatientAt ==
    /\ Len(queue) < MaxQueue
    /\ Len(audit_log) < MaxLog
    /\ \E pid \in PatientIds, s \in EntrySamples,
          ts \in {t \in ClockSamples : t <= now} :
          add_patient(TriageEntry(pid, s[1], s[2], ts))

\* datetime.now() moves on to a later sample instant
Advance ==
    /\ \E t \in ClockSamples : t > now /\ now' = t
    /\ result' = [op |-> "tick"]
    /\ UNCHANGED <<queue, audit_log>>

NextHealth ==
    \/ AddPatientAt /\ UNCHANGED <<ovars, tasks, exported>>
    \/ MarkSeen /\ UNCHANGED <<ovars, tasks, exported>>
    \/ health_check /\ UNCHANGED <<ovars, tasks, exported>>
    \/ Advance /\ UNCHANGED <<ovars, tasks, exported>>

SpecHealth == Init /\ [][NextHealth]_vars

\* alerts of one kind in a health_check return value
AlertsOfKind(alerts, kind) ==
    {i \in 1..Len(alerts) : alerts[i].kind = kind}

\* active HIGH entries of q that have waited more than 15 minutes at time t
LongWaitingHigh(q, t) ==
    {i \in 1..Len(q) : /\ q[i].triage_decision.risk_level = "HIGH"
                       /\ t - q[i].intake_timestamp > 15}

\* C31: health_check returns one alert if some active entry is CRITICAL
\* (none otherwise) plus one alert for each active HIGH entry whose current
\* wait is strictly more than 15 minutes, no other alert, each long-wait
\* alert being about a HIGH entry, and it appends no audit record.
C31_HealthAlerts ==
    [][ result'.op = "health_check" =>
          LET alerts == result'.ret.alerts
          IN  /\ audit_log' = audit_log
              /\ Cardinality(AlertsOfKind(alerts, "CRITICAL_WAITING"))
                    = IF CountRisk(queue, "CRITICAL") > 0 THEN 1 ELSE 0
              /\ Cardinality(AlertsOfKind(alerts, "HIGH_LONG_WAIT"))
                    = Cardinality(LongWaitingHigh(queue, now))
              /\ Len(alerts) = Cardinality(AlertsOfKind(alerts, "CRITICAL_WAITING"))
                                 + Cardinality(AlertsOfKind(alerts, "HIGH_LONG_WAIT"))
              /\ \A i \in AlertsOfKind(alerts, "HIGH_LONG_WAIT") :
                    \E k \in LongWaitingHigh(queue, now) :
                        /\ queue[k].patient_id = alerts[i].patient_id
                        /\ alerts[i].wait = now - queue[k].intake_timestamp
      ]_vars

\* health_check answered for a queue holding a CRITICAL entry, a HIGH entry
\* waiting 16 minutes and a HIGH entry waiting exactly 15 minutes
C31_Witness ==
    /\ result.op = "health_check"
    /\ Len(result.ret.alerts) = 2
    /\ CountRisk(queue, "CRITICAL") = 1
    /\ \E i, k \in 1..Len(queue) :
          /\ queue[i].triage_decision.risk_level = "HIGH"
          /\ queue[k].triage_decision.risk_level = "HIGH"
          /\ now - queue[i].intake_timestamp = 16
          /\ now - queue[k].intake_timestamp = 15

\* ------------------------------------------------------------------------
\* Analytics
\* ------------------------------------------------------------------------
\* audit records with a given action
RecordsOf(log, action) == {i \in 1..Len(log) : log[i].action = action}

\* a fraction equal to the integer n
FracIs(f, n) == f.den > 0 /\ f.num = n * f.den

\* C32: the analytics describe the current active set: total is the number
\* of active entries (one fewer after every successful mark_seen), the
\* escalation rate is 100 * (HIGH + CRITICAL) / total and lies in [0, 100],
\* and on the empty queue total = 0, rate = 0, median wait = 0 and
\* avg_confidence = 0.75 (75 hundredths).
C32_AnalyticsOfActiveSet ==
    [][ /\ result'.op = "get_analytics" =>
             LET a == result'.ret
                 rate == a.high_risk_escalation_rate
             IN  /\ a.total_triages = Len(queue)
                 /\ rate.den > 0
                 /\ rate.num >= 0 /\ rate.num <= 100 * rate.den
                 /\ Len(queue) > 0 =>
                       rate.num * Len(queue)
                         = 100 * (CountRisk(queue, "HIGH")
                                    + CountRisk(queue, "CRITICAL")) * rate.den
                 /\ Len(queue) = 0 =>
                       /\ FracIs(rate, 0)
                       /\ FracIs(a.median_wait_time, 0)
                       /\ FracIs(a.avg_confidence, 75)
        /\ (result'.op = "mark_seen" /\ result'.ret # None) =>
             Analytics(queue', now').total_triages
                = Analytics(queue, now).total_triages - 1
      ]_vars

\* analytics answered after two adds and one mark_seen: one active entry,
\* two PATIENT_ADDED records
C32_Witness ==
    /\ result.op = "get_analytics"
    /\ result.ret.total_triages = 1
    /\ Cardinality(RecordsOf(audit_log, "PATIENT_ADDED")) = 2
    /\ Cardinality(RecordsOf(audit_log, "PATIENT_SEEN")) = 1
    /\ CountRisk(queue, "CRITICAL") = 1

\* ------------------------------------------------------------------------
\* The fallback path of run_triage: _fallback_triage, then the override
\* ------------------------------------------------------------------------
MaxFallbackSymptoms == 3   \* longest symptom list given to the fallback

FbComplaints ==
    { <<"mild", "headache">>, <<"Chest", "Pain">>, <<"chest">>,
      <<"Severe", "cough">>, <<"had", "a", "Stroke">>, <<>> }

FbSymptoms ==
    { Symptom(<<"headache">>, "MILD"),
      Symptom(<<"back", "pain">>, "MODERATE"),
      Symptom(<<"bleeding">>, "MILD"),
      Symptom(<<"fever">>, "SEVERE"),
      Symptom(<<"rash">>, "CRITICAL") }

FbIntakes ==
    {PatientIntake(cc, sy, None) :
        cc \in FbComplaints, sy \in SeqsUpTo(FbSymptoms, MaxFallbackSymptoms)}

InitFallback ==
    /\ QInit
    /\ ov_intake \in FbIntakes
    /\ ov_raw = TriageDecision("LOW", 0, None)
    /\ ov_out = None
    /\ ov_twice = None
    /\ LoopIdle
    /\ ExportIdle

\* triage() when the classifier failed: the decision is the fallback's
FallbackTriage ==
    /\ result.op = "init"
    /\ ov_raw' = _fallback_triage(ov_intake)
    /\ result' = [op |-> "_fallback_triage"]
    /\ UNCHANGED <<queue, audit_log, now, ov_intake, ov_out, ov_twice,
                   tasks, exported>>

\* run_triage then passes that decision through the override
OverrideFallback ==
    /\ result.op = "_fallback_triage"
    /\ ApplyOverride

NextFallback == FallbackTriage \/ OverrideFallback

SpecFallback == InitFallback /\ [][NextFallback]_vars

\* C33: the fallback decision is HIGH if the lower-cased chief complaint
\* contains one of the six keywords or a symptom is SEVERE or CRITICAL,
\* else MEDIUM if there are more than two symptoms, else LOW, and its
\* confidence is 0.65 (65 hundredths) before the override runs.
C33_FallbackRule ==
    result.op = "_fallback_triage" =>
        LET cc == Lower(ov_intake.chief_complaint)
            keyword ==
                \/ Contains(<<"chest", "pain">>, cc)
                \/ Contains(<<"dyspnea">>, cc)
                \/ Contains(<<"stroke">>, cc)
                \/ Contains(<<"unconscious">>, cc)
                \/ Contains(<<"bleeding">>, cc)
                \/ Contains(<<"severe">>, cc)
            severe ==
                \E i \in 1..Len(ov_intake.symptoms) :
                    ov_intake.symptoms[i].severity \in {"SEVERE", "CRITICAL"}
        IN  /\ ov_raw.confidence_score = 65
            /\ (keyword \/ severe) => ov_raw.risk_level = "HIGH"
            /\ (~keyword /\ ~severe /\ Len(ov_intake.symptoms) > 2)
                  => ov_raw.risk_level = "MEDIUM"
            /\ (~keyword /\ ~severe /\ Len(ov_intake.symptoms) <= 2)
                  => ov_raw.risk_level = "LOW"

\* the fallback graded an intake of three mild or moderate symptoms and
\* no keyword, and the override has run on the result
C33_Witness ==
    /\ result.op = "_fallback_triage"
    /\ ov_out # None
    /\ Len(ov_intake.symptoms) = 3
    /\ ov_intake.chief_complaint = <<"chest">>
    /\ ov_raw.risk_level = "MEDIUM"

\* ------------------------------------------------------------------------
\* Order of the steps of POST /triage
\* ------------------------------------------------------------------------
\* C34: an entry that POST /triage adds carries the decision of the
\* classifier (or of the fallback) passed through the safety override
\* exactly once, before add_patient: it is CRITICAL if the intake's vitals
\* are beyond a critical threshold and at least HIGH if one of its symptom
\* names is a red-flag term, and the PATIENT_ADDED record shows that level.
C34_OverrideBeforeAdd ==
    [][ (result'.op = "submit_triage" /\ result'.status = 200) =>
          LET e == queue'[Len(queue')]
              raw == triage(e.intake, result'.response)
              v == e.intake.vital_signs
              critical ==
                  /\ v # None
                  /\ \/ v[1].oxygen_saturation # None
                            /\ v[1].oxygen_saturation[1] < 90
                     \/ v[1].systolic_bp # None /\ v[1].systolic_bp[1] < 90
                     \/ v[1].heart_rate # None /\ v[1].heart_rate[1] > 130
              red_flag ==
                  \E i \in 1..Len(e.intake.symptoms) :
                      Lower(e.intake.symptoms[i].name) \in
                          { <<"chest", "pain">>, <<"shortness", "of", "breath">>,
                            <<"breathing", "difficulty">>, <<"syncope">>,
                            <<"unconscious">>, <<"stroke">>, <<"seizure">>,
                            <<"severe", "bleeding">> }
          IN  /\ Len(queue') = Len(queue) + 1
              /\ e = result'.ret
              /\ ~raw.raised
              /\ e.triage_decision
                    = apply_clinical_overrides(e.intake, raw.value)
              /\ critical => e.triage_decision.risk_level = "CRITICAL"
              /\ red_flag => e.triage_decision.risk_level \in {"HIGH", "CRITICAL"}
              /\ audit_log'[Len(audit_log')].risk_level
                    = e.triage_decision.risk_level
      ]_vars

\* a classifier answer of "low" for an intake with oxygen saturation 85
\* entered the queue as CRITICAL, next to an entry whose "Chest pain"
\* symptom raised a fallback LOW to HIGH
C34_Witness ==
    /\ result.op = "submit_triage"
    /\ result.status = 200
    /\ result.response.kind = "object"
    /\ result.response.raw_output.risk_level = Some("low")
    /\ result.ret.intake.vital_signs # None
    /\ result.ret.intake.vital_signs[1].oxygen_saturation = Some(85)
    /\ result.ret.triage_decision.risk_level = "CRITICAL"
    /\ Len(queue) = 2
    /\ queue[1].intake.symptoms = <<Symptom(<<"Chest", "pain">>, "MODERATE")>>
    /\ queue[1].triage_decision.risk_level = "HIGH"
    /\ queue[1].triage_decision.confidence_score = 60

\* ------------------------------------------------------------------------
\* backend.py : the escalate and mark-seen routes
\*
\* Each handler body is one try block closed by `except Exception as e:
\* raise HTTPException(status_code=500, ...)`.
\* ------------------------------------------------------------------------
HTTPException(status_code) == [type |-> "HTTPException", status_code |-> status_code]

ValueError == [type |-> "ValueError", status_code |-> 0]

\* the exception classes that `except Exception` catches: HTTPException and
\* ValueError both derive from Exception
CaughtByExceptException(exc) == exc.type \in {"HTTPException", "ValueError"}

\* the outcome of a handler whose try block ended with outcome `body`
TryExcept500(body) ==
    IF body.raised /\ CaughtByExceptException(body.exc)
    THEN Raised(HTTPException(500))
    ELSE body

\* the status code FastAPI answers with
StatusOf(outcome) ==
    IF outcome.raised
    THEN (IF outcome.exc.type = "HTTPException" THEN outcome.exc.status_code
          ELSE 500)
    ELSE 200

\* RiskLevel(new_risk_level) on the query parameter
RiskLevelOf(text) == IF text \in RiskLevel THEN Returned(text) ELSE Raised(ValueError)

\* POST /queue/escalate/{patient_id}
escalate(patient_id, new_risk_level, reason) ==
    LET level == RiskLevelOf(new_risk_level)
        i == FirstIndex(queue, patient_id)
    IN  IF level.raised
        THEN /\ result' = [op |-> "escalate", patient_id |-> patient_id,
                           new_risk_level |-> new_risk_level,
                           status |-> StatusOf(TryExcept500(level))]
             /\ UNCHANGED <<queue, audit_log, now>>
        ELSE IF i # 0
        THEN LET old_level == queue[i].triage_decision.risk_level
                 entry == [queue[i] EXCEPT
                              !.triage_decision.risk_level = level.value,
                              !.escalation_reason = Some(reason)]
             IN  /\ queue' = [queue EXCEPT ![i] = entry]
                 /\ audit_log' = _log_action(audit_log, now, "ESCALATION",
                                     [patient_id |-> patient_id,
                                      old_risk |-> old_level,
                                      new_risk |-> level.value,
                                      reason |-> reason])
                 /\ result' = [op |-> "escalate", patient_id |-> patient_id,
                               new_risk_level |-> new_risk_level,
                               status |-> StatusOf(TryExcept500(Returned(entry)))]
                 /\ UNCHANGED now
        ELSE /\ result' = [op |-> "escalate", patient_id |-> patient_id,
                           new_risk_level |-> new_risk_level,
                           status |-> StatusOf(TryExcept500(
                                          Raised(HTTPException(404))))]
             /\ UNCHANGED <<queue, audit_log, now>>

\* POST /queue/mark-seen/{patient_id}
mark_seen_route(patient_id) ==
    LET i == FirstIndex(queue, patient_id)
    IN  IF i # 0
        THEN LET removed == queue[i]
             IN  /\ queue' = RemoveAt(queue, i)
                 /\ audit_log' = _log_action(audit_log, now, "PATIENT_SEEN",
                                     [patient_id |-> patient_id,
                                      wait_time_minutes |-> removed.wait_time_minutes,
                                      risk_level |-> removed.triage_decision.risk_level])
                 /\ result' = [op |-> "mark_seen_route", patient_id |-> patient_id,
                               status |-> StatusOf(TryExcept500(Returned(removed)))]
                 /\ UNCHANGED now
        ELSE /\ result' = [op |-> "mark_seen_route", patient_id |-> patient_id,
                           status |-> StatusOf(TryExcept500(
                                          Raised(HTTPException(404))))]
             /\ UNCHANGED <<queue, audit_log, now>>

\* the new_risk_level texts a client sends
LevelTexts == RiskLevel \cup {"URGENT"}

EscalateRoute ==
    \E pid \in PatientIds, r \in LevelTexts, why \in Reasons :
        /\ FirstIndex(queue, pid) # 0 => Len(audit_log) < MaxLog
        /\ escalate(pid, r, why)

MarkSeenRoute ==
    \E pid \in PatientIds :
        /\ FirstIndex(queue, pid) # 0 => Len(audit_log) < MaxLog
        /\ mark_seen_route(pid)

NextRoutes ==
    \/ AddPatient /\ UNCHANGED <<ovars, tasks, exported>>
    \/ EscalateRoute /\ UNCHANGED <<ovars, tasks, exported>>
    \/ MarkSeenRoute /\ UNCHANGED <<ovars, tasks, exported>>
    \/ Tick /\ UNCHANGED <<ovars, tasks, exported>>

SpecRoutes == Init /\ [][NextRoutes]_vars

\* C35: an escalate or mark-seen request that names a patient_id with no
\* active entry is answered with 404, not with the 500 of an unexpected
\* failure, and leaves the queue and the audit log unchanged.
C35_UnknownIdIs404 ==
    [][ ( /\ result'.op \in {"escalate", "mark_seen_route"}
          /\ FirstIndex(queue, result'.patient_id) = 0
          /\ (result'.op = "escalate" => result'.new_risk_level \in RiskLevel) )
        => /\ result'.status = 404
           /\ queue' = queue
           /\ audit_log' = audit_log
      ]_vars

\* ------------------------------------------------------------------------
\* The audit log as a history of the active set
\* ------------------------------------------------------------------------
\* ids with a PATIENT_ADDED record that no later PATIENT_SEEN record of the
\* same id follows
AddedNotSeen(log) ==
    {log[i].patient_id : i \in
        {i \in RecordsOf(log, "PATIENT_ADDED") :
            \A j \in RecordsOf(log, "PATIENT_SEEN") :
                j > i => log[j].patient_id # log[i].patient_id}}

\* C36: the number of active entries is the number of PATIENT_ADDED records
\* minus the number of PATIENT_SEEN records, and the active patient_ids are
\* exactly the ids with a PATIENT_ADDED record not followed by a
\* PATIENT_SEEN record of the same id.
C36_ActiveSetMatchesLog ==
    /\ Len(queue) = Cardinality(RecordsOf(audit_log, "PATIENT_ADDED"))
                      - Cardinality(RecordsOf(audit_log, "PATIENT_SEEN"))
    /\ ActiveIds(queue) = AddedNotSeen(audit_log)

\* audit records that mention patient_id pid, in log order
RecordsAbout(log, pid) == {i \in 1..Len(log) : log[i].patient_id = pid}

\* C37: the audit records of one patient_id form a life cycle: the first
\* is PATIENT_ADDED, there is at most one PATIENT_ADDED and at most one
\* PATIENT_SEEN, every ESCALATION lies after the PATIENT_ADDED and before
\* the PATIENT_SEEN, and the old_risk of an ESCALATION is the new_risk of
\* the previous ESCALATION of that id, or the risk_level logged at
\* PATIENT_ADDED if there is none.
C37_LifeCycleOrder ==
    \A pid \in {audit_log[i].patient_id : i \in 1..Len(audit_log)} :
        LET mine == RecordsAbout(audit_log, pid)
            added == mine \cap RecordsOf(audit_log, "PATIENT_ADDED")
            seen == mine \cap RecordsOf(audit_log, "PATIENT_SEEN")
            escalations == mine \cap RecordsOf(audit_log, "ESCALATION")
            first == CHOOSE i \in mine : \A j \in mine : i <= j
        IN  /\ audit_log[first].action = "PATIENT_ADDED"
            /\ Cardinality(added) <= 1
            /\ Cardinality(seen) <= 1
            /\ \A e \in escalations :
                  /\ \A a \in added : a < e
                  /\ \A s \in seen : e < s
                  /\ LET earlier == {j \in mine : j < e /\ j \notin seen}
                         prev == CHOOSE j \in earlier : \A k \in earlier : k <= j
                     IN  audit_log[e].old_risk
                            = IF audit_log[prev].action = "ESCALATION"
                              THEN audit_log[prev].new_risk
                              ELSE audit_log[prev].risk_level

\* ------------------------------------------------------------------------
\* Repeated ranking while time passes
\*
\* `result` keeps the last call: the clock moving on is not a call.
\* ------------------------------------------------------------------------
Wait ==
    /\ now < MaxTime
    /\ now' = now + 1
    /\ UNCHANGED <<queue, audit_log, result>>

NextStable ==
    \/ AddPatient /\ UNCHANGED <<ovars, tasks, exported>>
    \/ EscalatePatient /\ UNCHANGED <<ovars, tasks, exported>>
    \/ MarkSeen /\ UNCHANGED <<ovars, tasks, exported>>
    \/ get_sorted_queue /\ UNCHANGED <<ovars, tasks, exported>>
    \/ Wait /\ UNCHANGED <<ovars, tasks, exported>>

SpecStable == Init /\ [][NextStable]_vars

\* a ranked view without the waiting times
WithoutWaits(view) ==
    [i \in 1..Len(view) |-> [view[i] EXCEPT !.wait_time_minutes = 0]]

\* C38: a get_sorted_queue call that follows another one with no add,
\* escalate or mark_seen in between returns the same entries in the same
\* order with the same queue_position values, whatever time has passed,
\* and entries equal on all four sort keys are ranked in insertion order.
C38_RankingStable ==
    [][ result'.op = "get_sorted_queue" =>
          /\ result.op = "get_sorted_queue" =>
                WithoutWaits(result'.view) = WithoutWaits(result.view)
          /\ \A i, j \in 1..Len(queue') :
                ( /\ i < j
                  /\ queue'[i].triage_decision.risk_level
                        = queue'[j].triage_decision.risk_level
                  /\ get_patient_severity_score(queue'[i])
                        = get_patient_severity_score(queue'[j])
                  /\ queue'[i].triage_decision.confidence_score
                        = queue'[j].triage_decision.confidence_score
                  /\ queue'[i].intake_timestamp = queue'[j].intake_timestamp )
                => queue'[i].queue_position < queue'[j].queue_position
      ]_vars

\* a ranking made one minute after the intakes: p2 and p1 tie on all four
\* keys and are ranked in the order they were added, behind a CRITICAL
\* entry added last
C38_Witness ==
    /\ result.op = "get_sorted_queue"
    /\ now = 1
    /\ Len(queue) = 3
    /\ queue[1].patient_id = "p2" /\ queue[2].patient_id = "p1"
    /\ queue[1].intake = queue[2].intake
    /\ queue[1].triage_decision = queue[2].triage_decision
    /\ queue[1].intake_timestamp = 0 /\ queue[2].intake_timestamp = 0
    /\ queue[3].triage_decision.risk_level = "CRITICAL"
    /\ queue[1].triage_decision.risk_level = "MEDIUM"
    /\ queue[1].wait_time_minutes = 1
    /\ queue[3].queue_position = 1
    /\ queue[1].queue_position = 2
    /\ queue[2].queue_position = 3

\* ------------------------------------------------------------------------
\* The override and the order of the risk levels
\* ------------------------------------------------------------------------
\* C39: the override never lowers a risk level (LOW < MEDIUM < HIGH <
\* CRITICAL), and it returns the raw level when the vitals are within the
\* critical thresholds and no symptom name is a red-flag term.
C39_OverrideNeverLowers ==
    Overridden =>
        /\ <<ov_out[1].risk_level, ov_raw.risk_level>> \notin RiskBelow
        /\ (~VitalsBeyondThreshold /\ ~NamesRedFlag)
              => ov_out[1].risk_level = ov_raw.risk_level

\* a raw CRITICAL for an intake with a "chest pain" symptom and vitals at
\* the thresholds (90, 90, 130) comes out CRITICAL
C39_Witness ==
    /\ Overridden
    /\ ov_raw.risk_level = "CRITICAL"
    /\ ov_intake.symptoms = <<Symptom(<<"chest", "pain">>, "MILD")>>
    /\ ov_intake.vital_signs = Some(VitalSigns(Some(130), Some(90), Some(90)))
    /\ ov_out[1].risk_level = "CRITICAL"

\* ------------------------------------------------------------------------
\* Serving the queue from the top (specification SpecServe)
\*
\* A nurse station reads GET /queue and marks the entry at queue_position 1
\* seen, again and again; at most MaxLog intakes arrive in all, so from
\* some point on no entry is added.
\* ------------------------------------------------------------------------
ServeSamples ==
    { <<PatientIntake(<<"mild", "headache">>,
                      <<Symptom(<<"headache">>, "MILD")>>, NoVitals),
        TriageDecision("LOW", 80, None)>>,
      <<PatientIntake(<<"mild", "headache">>, <<>>, NoVitals),
        TriageDecision("CRITICAL", 30, None)>> }

MaxWaiting == 2   \* most entries waiting at once while the queue is served

Arrive ==
    /\ Len(queue) < MaxWaiting
    /\ Cardinality(RecordsOf(audit_log, "PATIENT_ADDED")) < MaxLog
    /\ \E pid \in PatientIds, s \in ServeSamples :
          add_patient(TriageEntry(pid, s[1], s[2], now))
    /\ UNCHANGED <<ovars, tasks, exported>>

ReadQueue == get_sorted_queue /\ UNCHANGED <<ovars, tasks, exported>>

\* mark-seen for the patient_id shown at queue_position 1 of the view
\* just read
MarkSeenTop ==
    /\ result.op = "get_sorted_queue"
    /\ result.view # <<>>
    /\ mark_seen(result.view[1].patient_id)
    /\ UNCHANGED <<ovars, tasks, exported>>

NextServe ==
    \/ Arrive
    \/ ReadQueue
    \/ MarkSeenTop
    \/ Tick /\ UNCHANGED <<ovars, tasks, exported>>

SpecServe ==
    /\ Init
    /\ [][NextServe]_vars
    /\ WF_vars(ReadQueue)
    /\ WF_vars(MarkSeenTop)

\* C40: once no further entry is added and the entry at queue_position 1
\* keeps being marked seen, the queue becomes empty and stays empty, with
\* a PATIENT_SEEN record for every PATIENT_ADDED record (LOW entries
\* included), and every successful mark_seen takes exactly one entry off
\* the queue.
C40_QueueDrains ==
    /\ <>[]( /\ queue = <<>>
             /\ Cardinality(RecordsOf(audit_log, "PATIENT_SEEN"))
                   = Cardinality(RecordsOf(audit_log, "PATIENT_ADDED")) )
    /\ [][ (result'.op = "mark_seen" /\ result'.ret # None)
              => Len(queue') = Len(queue) - 1 ]_vars

\* the queue has been emptied: a LOW entry that arrived first was seen
\* last, after two CRITICAL entries that arrived later, one of them while
\* the LOW entry was waiting behind the other
C40_Witness ==
    /\ queue = <<>>
    /\ result.op = "mark_seen"
    /\ result.ret # None
    /\ Len(audit_log) = 6
    /\ audit_log[1].action = "PATIENT_ADDED" /\ audit_log[1].risk_level = "LOW"
    /\ audit_log[2].action = "PATIENT_ADDED" /\ audit_log[2].risk_level = "CRITICAL"
    /\ audit_log[3].action = "PATIENT_SEEN" /\ audit_log[3].risk_level = "CRITICAL"
    /\ audit_log[4].action = "PATIENT_ADDED" /\ audit_log[4].risk_level = "CRITICAL"
    /\ audit_log[5].action = "PATIENT_SEEN" /\ audit_log[5].risk_level = "CRITICAL"
    /\ audit_log[6].action = "PATIENT_SEEN" /\ audit_log[6].risk_level = "LOW"
    /\ audit_log[6].patient_id # audit_log[3].patient_id

====
